---------------------------- MODULE Spec2Model ----------------------------
(***************************************************************************)
(* State-machine model of clickresearch-stats: the TTL cache               *)
(* (internal/cache), the query service (internal/stats/handler.go), the    *)
(* embedded-engine store (DuckDB) and the replicated store (ClickHouse).   *)
(* Each component has its own next-state relation and specification over   *)
(* the shared variables; a component that a specification does not step    *)
(* stays in its initial state.                                             *)
(***************************************************************************)
EXTENDS Integers, Sequences, FiniteSets, TLC

(***************************************************************************)
(* Bounds of the model.                                                    *)
(***************************************************************************)
\* Last instant of the discrete clock.
MaxTime == 3
\* The cache's TTL, in clock ticks (cache.New's argument).
TTL == 1
\* Number of Set calls the writers make in one behaviour.
MaxSets == 2
\* Number of Get calls the readers make in one behaviour.
MaxGets == 2

(***************************************************************************)
(* Go values handed to the cache, and encoding/json on them.               *)
(* A value is [t, v]: t its Go type, v its content as a sequence of        *)
(* integers (an int n is <<n>>, a slice its elements, a nil slice and a    *)
(* channel have no content).                                               *)
(***************************************************************************)
IntVal(n) == [t |-> "int", v |-> <<n>>]
SliceVal(s) == [t |-> "slice", v |-> s]
NilSlice == [t |-> "nilslice", v |-> <<>>]
ChanVal == [t |-> "chan", v |-> <<>>]
\* *Overview with every count n, and the nil *Overview.
OverviewVal(n) == [t |-> "overview", v |-> <<n>>]
NilOverview == [t |-> "niloverview", v |-> <<>>]
\* *FunnelResult with the per-step counts cs.
FunnelVal(cs) == [t |-> "funnel", v |-> cs]

Digit == <<"0", "1", "2", "3", "4", "5", "6", "7", "8", "9">>
Digits == {Digit[i] : i \in 1..10}
DigitOf(c) == (CHOOSE i \in 1..10 : Digit[i] = c) - 1

\* strconv-style decimal text of a natural number below 100.
EncodeInt(n) == IF n < 10 THEN <<Digit[n + 1]>>
                ELSE <<Digit[(n \div 10) + 1], Digit[(n % 10) + 1]>>

\* json.Marshal: ok = FALSE is a non-nil error (a channel is unsupported).
Marshal(val) ==
    CASE val.t = "int" -> [ok |-> TRUE, data |-> EncodeInt(val.v[1])]
      [] val.t \in {"nilslice", "niloverview"} ->
           [ok |-> TRUE, data |-> <<"null">>]
      [] val.t = "overview" ->
           [ok |-> TRUE, data |-> <<"{">> \o EncodeInt(val.v[1]) \o <<"}">>]
      [] val.t = "slice" ->
           [ok |-> TRUE,
            data |-> IF val.v = <<>> THEN <<"[", "]">>
                     ELSE <<"[">> \o EncodeInt(val.v[1]) \o <<"]">>]
      [] OTHER -> [ok |-> FALSE, data |-> <<>>]

\* A JSON number of one or two digits, without a leading zero.
IsNumber(d) ==
    /\ Len(d) \in 1..2
    /\ \A i \in 1..Len(d) : d[i] \in Digits
    /\ Len(d) = 2 => d[1] # "0"

DecodeInt(d) == IF Len(d) = 1 THEN DigitOf(d[1])
                ELSE 10 * DigitOf(d[1]) + DigitOf(d[2])

\* The zero value a fresh destination of Go type dest holds.
ZeroOf(dest) ==
    CASE dest = "int" -> IntVal(0)
      [] dest = "overview" -> NilOverview
      [] OTHER -> NilSlice

\* json.Unmarshal(data, &dest) into a fresh destination: JSON null leaves the
\* destination untouched and is no error; a type mismatch or cut-off text is.
Unmarshal(data, dest) ==
    IF data = <<"null">> THEN [ok |-> TRUE, val |-> ZeroOf(dest)]
    ELSE IF dest = "int" /\ IsNumber(data)
      THEN [ok |-> TRUE, val |-> IntVal(DecodeInt(data))]
    ELSE IF dest = "slice" /\ data = <<"[", "]">>
      THEN [ok |-> TRUE, val |-> SliceVal(<<>>)]
    ELSE IF /\ dest = "slice" /\ Len(data) >= 3
            /\ data[1] = "[" /\ data[Len(data)] = "]"
            /\ IsNumber(SubSeq(data, 2, Len(data) - 1))
      THEN [ok |-> TRUE,
            val |-> SliceVal(<<DecodeInt(SubSeq(data, 2, Len(data) - 1))>>)]
    ELSE IF /\ dest = "overview" /\ Len(data) >= 3
            /\ data[1] = "{" /\ data[Len(data)] = "}"
            /\ IsNumber(SubSeq(data, 2, Len(data) - 1))
      THEN [ok |-> TRUE,
            val |-> OverviewVal(DecodeInt(SubSeq(data, 2, Len(data) - 1)))]
    ELSE [ok |-> FALSE, val |-> ZeroOf(dest)]

(***************************************************************************)
(* encoding/json on []string (the domain list). A string is a sequence of  *)
(* characters; a list is [nil, elems]: a nil slice or its elements.        *)
(***************************************************************************)
Quote == "\""
Backslash == "\\"
NilList == [nil |-> TRUE, elems |-> <<>>]
ListOf(es) == [nil |-> FALSE, elems |-> es]
ToSet(l) == {l.elems[i] : i \in 1..Len(l.elems)}

\* Variant: string content written as it is.
EscapeNone(n) == n
\* json.Marshal of string content: a quote and a backslash get a backslash.
RECURSIVE Escape(_)
Escape(n) ==
    IF n = <<>> THEN <<>>
    ELSE (IF Head(n) \in {Quote, Backslash} THEN <<Backslash, Head(n)>>
          ELSE <<Head(n)>>) \o Escape(Tail(n))

EncodeString(n) == <<Quote>> \o Escape(n) \o <<Quote>>

RECURSIVE EncodeElems(_)
EncodeElems(es) ==
    IF Len(es) = 1 THEN EncodeString(es[1])
    ELSE EncodeString(es[1]) \o <<",">> \o EncodeElems(Tail(es))

\* json.Marshal(domains): a nil slice is null, an empty one [].
MarshalStrings(l) ==
    IF l.nil THEN <<"null">>
    ELSE IF l.elems = <<>> THEN <<"[", "]">>
    ELSE <<"[">> \o EncodeElems(l.elems) \o <<"]">>

NoParse == [ok |-> FALSE, val |-> <<>>, next |-> 0]

\* The string whose content starts at data[i], up to its closing quote.
RECURSIVE ParseString(_, _, _)
ParseString(data, i, acc) ==
    IF i > Len(data) THEN NoParse
    ELSE IF data[i] = Quote THEN [ok |-> TRUE, val |-> acc, next |-> i + 1]
    ELSE IF data[i] = Backslash
      THEN IF i + 1 <= Len(data) /\ data[i + 1] \in {Quote, Backslash}
           THEN ParseString(data, i + 2, Append(acc, data[i + 1]))
           ELSE NoParse
    ELSE ParseString(data, i + 1, Append(acc, data[i]))

\* The elements from data[i] on, up to the closing bracket that ends data.
RECURSIVE ParseElems(_, _, _)
ParseElems(data, i, acc) ==
    IF i > Len(data) \/ data[i] # Quote THEN NoParse
    ELSE LET r == ParseString(data, i + 1, <<>>) IN
         IF ~r.ok \/ r.next > Len(data) THEN NoParse
         ELSE IF data[r.next] = "," THEN ParseElems(data, r.next + 1, Append(acc, r.val))
         ELSE IF data[r.next] = "]" /\ r.next = Len(data)
           THEN [ok |-> TRUE, val |-> Append(acc, r.val), next |-> r.next + 1]
         ELSE NoParse

\* json.Unmarshal(data, &domains) into a nil []string: null leaves it nil.
UnmarshalStrings(data) ==
    IF data = <<"null">> THEN [ok |-> TRUE, list |-> NilList]
    ELSE IF data = <<"[", "]">> THEN [ok |-> TRUE, list |-> ListOf(<<>>)]
    ELSE IF Len(data) >= 2 /\ data[1] = "["
      THEN LET r == ParseElems(data, 2, <<>>) IN
           [ok |-> r.ok, list |-> IF r.ok THEN ListOf(r.val) ELSE NilList]
    ELSE [ok |-> FALSE, list |-> NilList]

(***************************************************************************)
(* State.                                                                  *)
(***************************************************************************)
VARIABLES
    now,        \* time.Now(), a discrete clock
    items,      \* Cache.items: key -> item
    mu,         \* Cache.mu: [w: the holder of the write lock, r: the read-lock holders]
    writer,     \* each goroutine calling Cache.Set: its position and locals
    reader,     \* each goroutine calling Cache.Get: its position and locals
    sweeper,    \* the goroutine running Cache.cleanup
    fault,      \* a goroutine read memory out of bounds (a torn slice header)
    lastStored, \* history: per key, the last Set that stored an entry
    written,    \* history: the values passed to Set so far
    nSets,      \* history: Set calls made
    nGets,      \* history: Get calls made
    ready,          \* Store.ready
    useMemoryTable, \* Store.useMemoryTable
    smu,            \* Store.mu: its holder
    table,          \* the engine's local table "events"
    bg,             \* the goroutine running Store.initS3, then the periodic loop
    query,          \* each goroutine calling a query method of Store
    lastOutcome,    \* history: how the last finished materialization ended
    hadFailure,     \* history: some materialization has failed
    everOk,         \* history: some materialization has succeeded
    dbClosed,       \* Store.db is closed (Store.Close was called)
    req,            \* each goroutine serving a request of the query service
    fetched,        \* history: per request (endpoint, domain, period), the
                    \* last result the store returned without error
    nReqs,          \* history: requests received
    chTable,        \* the replicated store's table "events"
    syncMu,         \* ClickHouseStore.syncMu: its holder
    syncer,         \* position of each caller of syncFromS3
    chLoop,         \* the goroutine running refreshLoop
    chClosed,       \* stopCh is closed and the connection shut
    chQuery,        \* each goroutine calling a query method of ClickHouseStore
    chGood,         \* history: some sync has completed
    chOutcome,      \* history: how the last finished sync ended
    dcDomains,      \* DomainCache.domains: the set of keys mapped to true
    dcMu,           \* DomainCache.mu: the holder of the write lock
    dcFile,         \* the snapshot file /tmp/domain_cache.json
    dcTask,         \* the refresh or loadFromFile call in progress
    dcLoop,         \* the goroutine running backgroundRefresh
    dcStopped,      \* DomainCache.stopCh is closed
    dcCheck,        \* each goroutine calling DomainExists
    dcHist,         \* history of the domain cache (see DcNoHist)
    calc            \* the query method call made: its arguments and result

cacheVars == <<items, mu, writer, reader, sweeper, fault, lastStored, written,
               nSets, nGets>>

duckVars == <<ready, useMemoryTable, smu, table, bg, query, lastOutcome,
              hadFailure, everOk, dbClosed>>

handlerVars == <<req, fetched, nReqs>>

chVars == <<chTable, syncMu, syncer, chLoop, chClosed, chQuery, chGood,
            chOutcome>>

dcVars == <<dcDomains, dcMu, dcFile, dcTask, dcLoop, dcStopped, dcCheck, dcHist>>

vars == <<now, cacheVars, duckVars, handlerVars, chVars, dcVars, calc>>

(***************************************************************************)
(* Requests of the query service and their cache keys (handler.go).        *)
(***************************************************************************)
\* HandleOverview, HandlePages (HandlePageviews has their shape) and
\* HandleSources (HandleDevices, HandleGeo, HandleEvents, ... have its shape).
Endpoints == {"overview", "pages", "sources"}
Domains == {"a.io"}
Periods == {"7d"}
\* The handlers that consult h.cache.
Cached(ep) == ep \in {"overview", "pageviews", "pages"}
\* The %d verb: the decimal text of n as one string.
RECURSIVE Concat(_)
Concat(ss) == IF ss = <<>> THEN "" ELSE Head(ss) \o Concat(Tail(ss))
FormatInt(n) == Concat(EncodeInt(n))
\* fmt.Sprintf("overview:%s:%s", domain, period), the same for pageviews, and
\* for pages fmt.Sprintf("pages:%s:%s:%d", domain, period, limit).
CacheKeyOf(ep, domain, period, limit) ==
    IF ep = "pages"
    THEN ep \o ":" \o domain \o ":" \o period \o ":" \o FormatInt(limit)
    ELSE ep \o ":" \o domain \o ":" \o period
\* The key of a request that leaves the limit to its default (parseLimit(r, 10)).
CacheKey(ep, domain, period) == CacheKeyOf(ep, domain, period, 10)

(***************************************************************************)
(* TTL cache (package cache).                                              *)
(***************************************************************************)
Keys == {"k1", "k2"}
\* The keys of the query service's cache.
HandlerKeys == {CacheKey(ep, d, p) :
                   ep \in {e \in Endpoints : Cached(e)}, d \in Domains, p \in Periods}
Writers == {"w1", "w2"}
Readers == {"r1", "r2"}
\* Each key is used with one Go type, as the callers of the cache do: k1 holds
\* ints (cache_test.go: c.Set("key", i)), k2 holds slices (handler.go: []TopItem).
\* A channel stands for a value json.Marshal rejects.
SetValues(k) == IF k = "k1" THEN {IntVal(3), IntVal(12), ChanVal}
                ELSE {NilSlice, SliceVal(<<7>>), ChanVal}
DestFor(k) == IF k = "k1" THEN "int" ELSE "slice"

\* A map slot: data is the slice header (buf, len) of the marshalled bytes.
NoItem == [present |-> FALSE, buf |-> <<>>, len |-> 0, expiresAt |-> 0]
NoSet == [some |-> FALSE, val |-> NilSlice, at |-> 0]

IdleWriter == [pc |-> "idle", key |-> "k1", val |-> NilSlice, data |-> <<>>,
               exp |-> 0, at |-> 0]
IdleReader == [pc |-> "idle", key |-> "k1", dest |-> "int", it |-> NoItem,
               seen |-> NoSet, retAt |-> 0, found |-> FALSE, val |-> NilSlice,
               had |-> FALSE]

CacheInit ==
    /\ items = [k \in Keys \cup HandlerKeys |-> NoItem]
    /\ mu = [w |-> "none", r |-> {}]
    /\ writer = [w \in Writers |-> IdleWriter]
    /\ reader = [r \in Readers |-> IdleReader]
    /\ sweeper = [wakeAt |-> TTL]
    /\ fault = FALSE
    /\ lastStored = [k \in Keys \cup HandlerKeys |-> NoSet]
    /\ written = {}
    /\ nSets = 0
    /\ nGets = 0

\* sync.RWMutex: Lock waits for the writer and every reader, RLock for the writer.
CanLock == mu.w = "none" /\ mu.r = {}
\* Variant: RLock that does not wait for the writer.
CanRLockAlways == TRUE
CanRLock == mu.w = "none"

\* Variant: the expiry instant itself already counts as expired.
ExpiredInclusive(t, it) == t >= it.expiresAt
\* time.Now().After(it.expiresAt)
Expired(t, it) == t > it.expiresAt

\* The bytes a slice header denotes.
Data(it) == SubSeq(it.buf, 1, it.len)

\* Variant: Set without its `if err != nil` return: the (empty) data is stored.
SetCallUnchecked(w, k, val) ==
    /\ writer[w].pc = "idle"
    /\ nSets < MaxSets
    /\ nSets' = nSets + 1
    /\ written' = written \cup {val}
    /\ writer' = [writer EXCEPT ![w] =
          [pc |-> "lock", key |-> k, val |-> val, data |-> Marshal(val).data,
           exp |-> 0, at |-> 0]]
    /\ UNCHANGED <<duckVars, handlerVars, chVars, dcVars, now, items, mu, reader, sweeper, fault, lastStored, nGets, calc>>

\* Set, lines 42-45: marshal; on an error return without touching the cache
\* (the caller's record keeps the key of the call that returned this way).
SetCall(w, k, val) ==
    /\ writer[w].pc = "idle"
    /\ nSets < MaxSets
    /\ nSets' = nSets + 1
    /\ written' = written \cup {val}
    /\ LET m == Marshal(val) IN
         writer' = [writer EXCEPT ![w] =
            IF m.ok
            THEN [pc |-> "lock", key |-> k, val |-> val, data |-> m.data,
                  exp |-> 0, at |-> 0]
            ELSE [IdleWriter EXCEPT !.key = k]]
    /\ UNCHANGED <<duckVars, handlerVars, chVars, dcVars, now, items, mu, reader, sweeper, fault, lastStored, nGets, calc>>

\* Set, lines 47-51: c.mu.Lock(); the item literal is evaluated
\* (time.Now().Add(c.ttl)) and the map slot is written word by word: first the
\* pointer of data ...
SetLock(w) ==
    /\ writer[w].pc = "lock"
    /\ CanLock
    /\ mu' = [mu EXCEPT !.w = w]
    /\ LET k == writer[w].key IN
         items' = [items EXCEPT ![k] =
            [present |-> TRUE, buf |-> writer[w].data, len |-> items[k].len,
             expiresAt |-> items[k].expiresAt]]
    /\ writer' = [writer EXCEPT ![w].pc = "store", ![w].exp = now + TTL,
                                ![w].at = now]
    /\ UNCHANGED <<duckVars, handlerVars, chVars, dcVars, now, reader, sweeper, fault, lastStored, written, nSets,
                   nGets, calc>>

\* ... then its length and expiresAt; line 52: c.mu.Unlock(), and Set returns.
SetUnlock(w) ==
    /\ writer[w].pc = "store"
    /\ LET k == writer[w].key IN
         items' = [items EXCEPT ![k].len = Len(writer[w].data),
                                ![k].expiresAt = writer[w].exp]
    /\ mu' = [mu EXCEPT !.w = "none"]
    /\ lastStored' = [lastStored EXCEPT ![writer[w].key] =
          [some |-> TRUE, val |-> writer[w].val, at |-> writer[w].at]]
    /\ writer' = [writer EXCEPT ![w] = IdleWriter]
    /\ UNCHANGED <<duckVars, handlerVars, chVars, dcVars, now, reader, sweeper, fault, written, nSets, nGets, calc>>

\* A goroutine calls Get(k, &dest) with a fresh destination.
GetCall(r, k, dest) ==
    /\ reader[r].pc \in {"idle", "done"}
    /\ nGets < MaxGets
    /\ nGets' = nGets + 1
    /\ reader' = [reader EXCEPT ![r] =
          [IdleReader EXCEPT !.pc = "rlock", !.key = k, !.dest = dest]]
    /\ UNCHANGED <<duckVars, handlerVars, chVars, dcVars, now, items, mu, writer, sweeper, fault, lastStored, written,
                   nSets, calc>>

\* Get, lines 30-31: c.mu.RLock(); it, ok := c.items[key]
GetRLock(r) ==
    /\ reader[r].pc = "rlock"
    /\ CanRLock
    /\ mu' = [mu EXCEPT !.r = @ \cup {r}]
    /\ reader' = [reader EXCEPT ![r].pc = "runlock",
                                ![r].it = items[reader[r].key],
                                ![r].seen = lastStored[reader[r].key]]
    /\ UNCHANGED <<duckVars, handlerVars, chVars, dcVars, now, items, writer, sweeper, fault, lastStored, written,
                   nSets, nGets, calc>>

\* Get, line 32: c.mu.RUnlock()
GetRUnlock(r) ==
    /\ reader[r].pc = "runlock"
    /\ mu' = [mu EXCEPT !.r = @ \ {r}]
    /\ reader' = [reader EXCEPT ![r].pc = "check"]
    /\ UNCHANGED <<duckVars, handlerVars, chVars, dcVars, now, items, writer, sweeper, fault, lastStored, written,
                   nSets, nGets, calc>>

\* Get, lines 34-38: absent or expired is not found; otherwise unmarshal, and
\* an unmarshal error is not found. A length beyond the buffer reads out of
\* bounds.
GetReturn(r) ==
    /\ reader[r].pc = "check"
    /\ LET it == reader[r].it
           miss == ~it.present \/ Expired(now, it)
           oob == ~miss /\ it.len > Len(it.buf)
           u == IF miss \/ oob THEN [ok |-> FALSE, val |-> ZeroOf(reader[r].dest)]
                ELSE Unmarshal(Data(it), reader[r].dest)
       IN /\ reader' = [reader EXCEPT ![r].pc = "done", ![r].found = u.ok,
                                      ![r].val = u.val, ![r].retAt = now,
                                      ![r].had = it.present, ![r].it = NoItem]
          /\ fault' = (fault \/ oob)
    /\ UNCHANGED <<duckVars, handlerVars, chVars, dcVars, now, items, mu, writer, sweeper, lastStored, written, nSets,
                   nGets, calc>>

\* Variant: a sweep that deletes every entry, expired or not.
CleanupAll ==
    /\ now >= sweeper.wakeAt
    /\ CanLock
    /\ items' = [k \in DOMAIN items |-> NoItem]
    /\ sweeper' = [sweeper EXCEPT !.wakeAt = now + TTL]
    /\ UNCHANGED <<duckVars, handlerVars, chVars, dcVars, now, mu, writer,
                   reader, fault, lastStored, written, nSets, nGets, calc>>

\* cleanup, lines 57-65, one round: time.Sleep(c.ttl) is over; under c.mu.Lock()
\* every entry that expired before now is deleted; c.mu.Unlock() and the next
\* time.Sleep(c.ttl) starts.
Cleanup ==
    /\ now >= sweeper.wakeAt
    /\ CanLock
    /\ items' = [k \in DOMAIN items |->
          IF items[k].present /\ Expired(now, items[k]) THEN NoItem
          ELSE items[k]]
    /\ sweeper' = [sweeper EXCEPT !.wakeAt = now + TTL]
    /\ UNCHANGED <<duckVars, handlerVars, chVars, dcVars, now, mu, writer, reader, fault, lastStored, written, nSets,
                   nGets, calc>>

(***************************************************************************)
(* Embedded-engine store (type Store, DuckDB).                             *)
(***************************************************************************)
\* The statements initS3 executes before the first materialization.
SetupStatements == 7
Queriers == {"q1", "q2"}
\* Query methods: GetOverview; the list queries (GetPageviewsTimeSeries,
\* GetTopSources, getTopBy and its callers, GetRecentEvents,
\* GetAutocaptureEvents), which share one shape; GetFunnel.
Methods == {"GetOverview", "GetTopPages", "GetFunnel"}

NoResult == [err |-> FALSE, val |-> NilSlice, torn |-> FALSE]
\* db: the call reached the engine; dbErr: the engine answered it with an
\* error; ready, warm: s.ready when the method was called, and whether a
\* materialization had succeeded when it got its result.
IdleQuery == [pc |-> "idle", method |-> "GetOverview", src |-> "none",
              res |-> NoResult, db |-> FALSE, dbErr |-> FALSE,
              ready |-> FALSE, warm |-> FALSE]

DuckInit ==
    /\ ready = FALSE
    /\ useMemoryTable = FALSE
    /\ smu = "none"
    /\ table = "none"
    /\ bg = [phase |-> "setup", i |-> 1, rpc |-> "idle"]
    /\ query = [q \in Queriers |-> IdleQuery]
    /\ lastOutcome = "none"
    /\ hadFailure = FALSE
    /\ everOk = FALSE
    /\ dbClosed = FALSE

\* Variant: Lock that does not wait for the holder.
MuFreeAlways == TRUE
\* sync.Mutex: Lock waits until nobody holds s.mu.
MuFree == smu = "none"

\* Variant: the local table whatever the flag says.
TableSourceLocal == "events"
\* tableSource, lines 109-114.
TableSource == IF useMemoryTable THEN "events" ELSE "parquet"

\* Variant: a query method without its `if !s.ready` guard.
StoreReadyAlways == TRUE
\* The `!s.ready` test that opens every query method.
StoreReady == ready

\* initS3, lines 60-65: one setup statement; an error is logged and initS3
\* returns: no materialization, no ready flag, no periodic loop.
SetupExec(ok) ==
    /\ bg.phase = "setup"
    /\ ok => ~dbClosed
    /\ bg' = IF ~ok THEN [bg EXCEPT !.phase = "exited"]
             ELSE IF bg.i < SetupStatements THEN [bg EXCEPT !.i = bg.i + 1]
             ELSE [bg EXCEPT !.phase = "refresh0", !.rpc = "lock"]
    /\ UNCHANGED <<ready, useMemoryTable, smu, table, query, lastOutcome,
                   hadFailure, everOk, now, cacheVars, handlerVars, chVars, dcVars, calc, dbClosed>>

\* refreshMemoryTable, line 83: s.mu.Lock()
RefreshLock ==
    /\ bg.rpc = "lock"
    /\ MuFree
    /\ smu' = "refresh"
    /\ bg' = [bg EXCEPT !.rpc = "drop"]
    /\ UNCHANGED <<ready, useMemoryTable, table, query, lastOutcome, hadFailure, everOk,
                   now, cacheVars, handlerVars, chVars, dcVars, calc, dbClosed>>

\* refreshMemoryTable, line 89: DROP TABLE IF EXISTS events; its error is ignored.
RefreshDrop(ok) ==
    /\ bg.rpc = "drop"
    /\ ok => ~dbClosed
    /\ table' = IF ok THEN "none" ELSE table
    /\ bg' = [bg EXCEPT !.rpc = "create"]
    /\ UNCHANGED <<ready, useMemoryTable, smu, query, lastOutcome, hadFailure, everOk,
                   now, cacheVars, handlerVars, chVars, dcVars, calc, dbClosed>>

\* Variant: a CREATE that fails at once leaves the flag as it was.
RefreshCreateKeepFlag(ok) ==
    /\ bg.rpc = "create"
    /\ ok => ~dbClosed
    /\ IF ok /\ table = "none"
       THEN /\ table' = "building"
            /\ bg' = [bg EXCEPT !.rpc = "creating"]
            /\ UNCHANGED <<useMemoryTable, lastOutcome, hadFailure, everOk>>
       ELSE /\ lastOutcome' = "failed"
            /\ hadFailure' = TRUE
            /\ bg' = [bg EXCEPT !.rpc = "unlock"]
            /\ UNCHANGED <<useMemoryTable, table, everOk>>
    /\ UNCHANGED <<ready, smu, query, now, cacheVars, handlerVars, chVars, dcVars, calc, dbClosed>>

\* refreshMemoryTable, lines 91-98: CREATE TABLE events AS SELECT ... starts
\* filling the table, or fails at once (the remote files cannot be read, or
\* the table still exists because the drop failed).
RefreshCreate(ok) ==
    /\ bg.rpc = "create"
    /\ ok => ~dbClosed
    /\ IF ok /\ table = "none"
       THEN /\ table' = "building"
            /\ bg' = [bg EXCEPT !.rpc = "creating"]
            /\ UNCHANGED <<useMemoryTable, lastOutcome, hadFailure, everOk>>
       ELSE /\ useMemoryTable' = FALSE
            /\ lastOutcome' = "failed"
            /\ hadFailure' = TRUE
            /\ bg' = [bg EXCEPT !.rpc = "unlock"]
            /\ UNCHANGED <<table, everOk>>
    /\ UNCHANGED <<ready, smu, query, now, cacheVars, handlerVars, chVars, dcVars, calc, dbClosed>>

\* refreshMemoryTable, lines 96-102: the statement ends: the table is complete
\* and the flag set, or the statement failed, the table is gone and the flag
\* cleared.
RefreshCreated(ok) ==
    /\ bg.rpc = "creating"
    /\ table' = IF ok THEN "full" ELSE "none"
    /\ useMemoryTable' = ok
    /\ lastOutcome' = IF ok THEN "ok" ELSE "failed"
    /\ hadFailure' = (hadFailure \/ ~ok)
    /\ everOk' = (everOk \/ ok)
    /\ bg' = [bg EXCEPT !.rpc = "unlock"]
    /\ UNCHANGED <<ready, smu, query, now, cacheVars, handlerVars, chVars, dcVars, calc, dbClosed>>

\* refreshMemoryTable, line 84: the deferred s.mu.Unlock(); the caller goes on:
\* initS3 to line 70, the loop to its next tick.
RefreshUnlock ==
    /\ bg.rpc = "unlock"
    /\ smu' = "none"
    /\ bg' = [bg EXCEPT !.rpc = "idle",
                        !.phase = IF bg.phase = "refresh0" THEN "markReady"
                                  ELSE "loop"]
    /\ UNCHANGED <<ready, useMemoryTable, table, query, lastOutcome, hadFailure, everOk,
                   now, cacheVars, handlerVars, chVars, dcVars, calc, dbClosed>>

\* initS3, line 70: s.ready = true, whatever the first materialization did.
MarkReady ==
    /\ bg.phase = "markReady"
    /\ ready' = TRUE
    /\ bg' = [bg EXCEPT !.phase = "spawn"]
    /\ UNCHANGED <<useMemoryTable, smu, table, query, lastOutcome, hadFailure, everOk,
                   now, cacheVars, handlerVars, chVars, dcVars, calc, dbClosed>>

\* initS3, lines 74-79: the periodic goroutine starts; initS3 returns.
SpawnLoop ==
    /\ bg.phase = "spawn"
    /\ bg' = [bg EXCEPT !.phase = "loop"]
    /\ UNCHANGED <<ready, useMemoryTable, smu, table, query, lastOutcome,
                   hadFailure, everOk, now, cacheVars, handlerVars, chVars, dcVars, calc, dbClosed>>

\* Lines 76-77: the 5-minute ticker fires; s.refreshMemoryTable() is called.
LoopTick ==
    /\ bg.phase = "loop"
    /\ bg' = [bg EXCEPT !.phase = "refresh", !.rpc = "lock"]
    /\ UNCHANGED <<ready, useMemoryTable, smu, table, query, lastOutcome,
                   hadFailure, everOk, now, cacheVars, handlerVars, chVars, dcVars, calc, dbClosed>>

\* Store.Close, lines 105-107: s.db.Close() and nothing else. On a closed
\* sql.DB every statement that has not started returns an error.
DuckClose ==
    /\ ~dbClosed
    /\ dbClosed' = TRUE
    /\ UNCHANGED <<ready, useMemoryTable, smu, table, bg, query, lastOutcome,
                   hadFailure, everOk, now, cacheVars, handlerVars, chVars,
                   dcVars, calc>>

\* What the engine can answer to a query reading src: rows, no row, an error;
\* a table being filled shows part of its rows, a missing table is an error.
DbOutcomes(src) ==
    IF dbClosed THEN {"err"}
    ELSE IF src = "events" /\ table = "building" THEN {"partial"}
    ELSE IF src = "events" /\ table = "none" THEN {"err"}
    ELSE {"rows", "empty", "err"}

\* Variant: a store that is not ready reports an error.
NotReadyError(m) == [err |-> TRUE, torn |-> FALSE, val |-> NilSlice]
\* What a query method returns before the store is ready: &Overview{}, a nil
\* slice, a FunnelResult of zero counts; the error is nil.
NotReadyResult(m) ==
    [err |-> FALSE, torn |-> FALSE,
     val |-> CASE m = "GetOverview" -> OverviewVal(0)
               [] m = "GetFunnel" -> FunnelVal(<<0, 0>>)
               [] OTHER -> NilSlice]

\* What a query method returns for the engine's answer. GetFunnel ignores the
\* error of its count queries (line 420) and returns the counts it has.
MethodResult(m, out) ==
    [err |-> (out = "err" /\ m # "GetFunnel"),
     torn |-> (out = "partial"),
     val |-> CASE m = "GetOverview" ->
                    IF out = "err" THEN NilOverview
                    ELSE IF out = "rows" THEN OverviewVal(5)
                    ELSE IF out = "partial" THEN OverviewVal(2)
                    ELSE OverviewVal(0)
               [] m = "GetFunnel" ->
                    IF out = "rows" THEN FunnelVal(<<4, 2>>)
                    ELSE IF out = "partial" THEN FunnelVal(<<2, 1>>)
                    ELSE FunnelVal(<<0, 0>>)
               [] OTHER ->
                    IF out \in {"rows", "partial"} THEN SliceVal(<<7>>)
                    ELSE NilSlice]

\* A query method is called; lines 124-126 (and 159, 220, 267, 328, 396, 475):
\* not ready returns the zero result at once.
QCall(q, m) ==
    /\ query[q].pc \in {"idle", "done"}
    /\ query' = [query EXCEPT ![q] =
          IF StoreReady
          THEN [IdleQuery EXCEPT !.pc = "lock", !.method = m, !.ready = ready]
          ELSE [IdleQuery EXCEPT !.pc = "done", !.method = m,
                                 !.res = NotReadyResult(m), !.ready = ready,
                                 !.warm = everOk]]
    /\ UNCHANGED <<ready, useMemoryTable, smu, table, bg, lastOutcome,
                   hadFailure, everOk, now, cacheVars, handlerVars, chVars, dcVars, calc, dbClosed>>

\* Line 128: s.mu.Lock()
QLock(q) ==
    /\ query[q].pc = "lock"
    /\ MuFree
    /\ smu' = q
    /\ query' = [query EXCEPT ![q].pc = "source"]
    /\ UNCHANGED <<ready, useMemoryTable, table, bg, lastOutcome, hadFailure, everOk,
                   now, cacheVars, handlerVars, chVars, dcVars, calc, dbClosed>>

\* Lines 131-140: the query text is built around s.tableSource().
QSource(q) ==
    /\ query[q].pc = "source"
    /\ query' = [query EXCEPT ![q].pc = "exec", ![q].src = TableSource]
    /\ UNCHANGED <<ready, useMemoryTable, smu, table, bg, lastOutcome,
                   hadFailure, everOk, now, cacheVars, handlerVars, chVars, dcVars, calc, dbClosed>>

\* Lines 143-149: the query runs and its rows are scanned.
QExec(q, out) ==
    /\ query[q].pc = "exec"
    /\ out \in DbOutcomes(query[q].src)
    /\ query' = [query EXCEPT ![q].pc = "unlock", ![q].db = TRUE,
                              ![q].dbErr = (out = "err"),
                              ![q].warm = everOk,
                              ![q].res = MethodResult(query[q].method, out)]
    /\ UNCHANGED <<ready, useMemoryTable, smu, table, bg, lastOutcome,
                   hadFailure, everOk, now, cacheVars, handlerVars, chVars, dcVars, calc, dbClosed>>

\* Line 129: the deferred s.mu.Unlock() as the method returns.
QUnlock(q) ==
    /\ query[q].pc = "unlock"
    /\ smu' = "none"
    /\ query' = [query EXCEPT ![q].pc = "done"]
    /\ UNCHANGED <<ready, useMemoryTable, table, bg, lastOutcome, hadFailure, everOk,
                   now, cacheVars, handlerVars, chVars, dcVars, calc, dbClosed>>

(***************************************************************************)
(* Query service (type Handler, internal/stats/handler.go). Its store is   *)
(* a StoreInterface: a call returns a result or an error.                  *)
(***************************************************************************)
Clients == {"h1", "h2"}
\* Number of requests received in one behaviour.
MaxRequests == 2

StoreMethod(ep) == CASE ep = "overview" -> "GetOverview"
                     [] ep = "pages" -> "GetTopPages"
                     [] OTHER -> "GetTopSources"
\* The Go type of the handler's `data` variable.
DestOf(ep) == IF ep = "overview" THEN "overview" ELSE "slice"

NoResponse == [code |-> 0, body |-> <<>>]
\* at: the instant the request was received; prior: the last successful store
\* result for the same request at that instant; prevFailed: a request like it
\* had ended in a store error; hit: served from the cache; called: the store
\* was called; set: what the handler stored in the cache; cold: the store
\* answered with its not-ready result; storeReady: s.ready at the instant the
\* request was received.
IdleReq == [pc |-> "idle", ep |-> "overview", domain |-> "a.io",
            period |-> "7d", at |-> 0, prior |-> NoSet, prevFailed |-> FALSE,
            hit |-> FALSE, called |-> FALSE, err |-> FALSE, data |-> NilSlice,
            set |-> NoSet, resp |-> NoResponse, cold |-> FALSE,
            storeReady |-> FALSE]
ReqId(r) == <<r.ep, r.domain, r.period>>

HandlerInit ==
    /\ req = [h \in Clients |-> IdleReq]
    /\ fetched = [id \in Endpoints \X Domains \X Periods |-> NoSet]
    /\ nReqs = 0

\* Variant: a lookup that never finds its key.
CacheHitNever(it, t) == FALSE
\* h.cache.Get finds an entry that is present and not expired.
CacheHit(it, t) == it.present /\ ~Expired(t, it)

\* writeJSON: 200 and the JSON encoding of data.
WriteJSON(data) == [code |-> 200, body |-> Marshal(data).data]
\* writeError(w, err, http.StatusInternalServerError)
WriteError == [code |-> 500, body |-> <<"{", "error", "}">>]

\* h.cache.Set(k, val) as one step: under the write lock the slot is replaced.
CacheSet(k, val) ==
    /\ CanLock
    /\ LET m == Marshal(val) IN
         IF m.ok
         THEN /\ items' = [items EXCEPT ![k] =
                    [present |-> TRUE, buf |-> m.data, len |-> Len(m.data),
                     expiresAt |-> now + TTL]]
              /\ lastStored' = [lastStored EXCEPT ![k] =
                    [some |-> TRUE, val |-> val, at |-> now]]
         ELSE UNCHANGED <<items, lastStored>>

\* A handler is entered: parameters, cache key, and for a caching handler the
\* lookup (HandleOverview lines 74-82): a hit is written out and the handler
\* returns. A handler without cache goes straight to the store.
HRequest(h, ep, d, p) ==
    /\ req[h].pc \in {"idle", "done"}
    /\ nReqs < MaxRequests
    /\ nReqs' = nReqs + 1
    /\ Cached(ep) => CanRLock
    /\ LET it == IF Cached(ep) THEN items[CacheKey(ep, d, p)] ELSE NoItem
           u == IF Cached(ep) /\ CacheHit(it, now)
                THEN Unmarshal(Data(it), DestOf(ep))
                ELSE [ok |-> FALSE, val |-> ZeroOf(DestOf(ep))]
           base == [IdleReq EXCEPT
                      !.ep = ep, !.domain = d, !.period = p, !.at = now,
                      !.storeReady = ready,
                      !.prior = fetched[<<ep, d, p>>],
                      !.prevFailed = \E o \in Clients :
                           /\ req[o].pc = "done" /\ req[o].err
                           /\ ReqId(req[o]) = <<ep, d, p>>]
       IN req' = [req EXCEPT ![h] =
              IF u.ok THEN [base EXCEPT !.pc = "done", !.hit = TRUE,
                                        !.resp = WriteJSON(u.val)]
              ELSE [base EXCEPT !.pc = "store"]]
    /\ UNCHANGED <<now, cacheVars, duckVars, fetched, chVars, dcVars, calc>>

\* What the handler's store (a *Store, NewHandler line 18) returns: its
\* not-ready result while s.ready is false, else the result of its query.
StoreResult(m, out) ==
    IF out = "notready" THEN NotReadyResult(m) ELSE MethodResult(m, out)
\* The answers a call can get from the store given s.ready.
ColdOutcomes == IF ready THEN {"rows", "empty", "err"} ELSE {"notready"}

\* Variant: the result is cached before the error is looked at.
HServeSetFirst(h, out) ==
    /\ req[h].pc = "store"
    /\ LET r == req[h]
           res == StoreResult(StoreMethod(r.ep), out)
           stamp == [some |-> TRUE, val |-> res.val, at |-> now]
       IN /\ IF Cached(r.ep)
             THEN CacheSet(CacheKey(r.ep, r.domain, r.period), res.val)
             ELSE UNCHANGED <<items, lastStored>>
          /\ fetched' = IF res.err THEN fetched
                        ELSE [fetched EXCEPT ![ReqId(r)] = stamp]
          /\ req' = [req EXCEPT ![h].pc = "done", ![h].called = TRUE,
                        ![h].err = res.err, ![h].data = res.val,
                        ![h].cold = (out = "notready"),
                        ![h].set = IF Cached(r.ep) THEN stamp ELSE NoSet,
                        ![h].resp = IF res.err THEN WriteError
                                    ELSE WriteJSON(res.val)]
    /\ UNCHANGED <<now, mu, writer, reader, sweeper, fault, written, nSets,
                   nGets, duckVars, nReqs, chVars, dcVars, calc>>

\* Lines 85-91: the store method is called through the interface and returns
\* rows, an empty result, or an error. An error is answered with 500 and the
\* handler returns; otherwise a caching handler stores the result, and the
\* result is written.
HServe(h, out) ==
    /\ req[h].pc = "store"
    /\ LET r == req[h]
           res == StoreResult(StoreMethod(r.ep), out)
           stamp == [some |-> TRUE, val |-> res.val, at |-> now]
       IN IF res.err
          THEN /\ req' = [req EXCEPT ![h].pc = "done", ![h].called = TRUE,
                             ![h].err = TRUE, ![h].data = res.val,
                             ![h].cold = (out = "notready"),
                             ![h].resp = WriteError]
               /\ UNCHANGED <<items, lastStored, fetched>>
          ELSE /\ IF Cached(r.ep)
                  THEN CacheSet(CacheKey(r.ep, r.domain, r.period), res.val)
                  ELSE UNCHANGED <<items, lastStored>>
               /\ fetched' = [fetched EXCEPT ![ReqId(r)] = stamp]
               /\ req' = [req EXCEPT ![h].pc = "done", ![h].called = TRUE,
                             ![h].data = res.val, ![h].cold = (out = "notready"),
                             ![h].set = IF Cached(r.ep) THEN stamp ELSE NoSet,
                             ![h].resp = WriteJSON(res.val)]
    /\ UNCHANGED <<now, mu, writer, reader, sweeper, fault, written, nSets,
                   nGets, duckVars, nReqs, chVars, dcVars, calc>>

(***************************************************************************)
(* Replicated store (type ClickHouseStore, store_clickhouse.go).           *)
(***************************************************************************)
\* The two callers of syncFromS3: NewClickHouseStore and refreshLoop.
Callers == {"ctor", "loop"}
ChQueriers == {"c1", "c2"}
\* saw: the table as the query read it; during: a sync was between its
\* truncate and its return when the query ran.
IdleChQuery == [pc |-> "idle", saw |-> "none", err |-> FALSE,
                afterFailure |-> FALSE, during |-> FALSE]

\* The state when NewClickHouseStore has created the table (line 73) and is
\* about to make the initial sync.
CHInit ==
    /\ chTable = "empty"
    /\ syncMu = "none"
    /\ syncer = [c \in Callers |-> IF c = "ctor" THEN "lock" ELSE "idle"]
    /\ chLoop = "none"
    /\ chClosed = FALSE
    /\ chQuery = [q \in ChQueriers |-> IdleChQuery]
    /\ chGood = FALSE
    /\ chOutcome = "none"

\* Variant: syncFromS3 without its lock.
SyncNoLock(c) ==
    /\ syncer[c] = "lock"
    /\ syncer' = [syncer EXCEPT ![c] = "truncate"]
    /\ UNCHANGED <<syncMu, chTable, chLoop, chClosed, chQuery, chGood, chOutcome,
                   now, cacheVars, duckVars, handlerVars, dcVars, calc>>

\* syncFromS3, line 131: s.syncMu.Lock()
SyncLock(c) ==
    /\ syncer[c] = "lock"
    /\ syncMu = "none"
    /\ syncMu' = c
    /\ syncer' = [syncer EXCEPT ![c] = "truncate"]
    /\ UNCHANGED <<chTable, chLoop, chClosed, chQuery, chGood, chOutcome,
                   now, cacheVars, duckVars, handlerVars, dcVars, calc>>

\* Lines 139-141: TRUNCATE TABLE events; on an error syncFromS3 returns it.
\* A closed connection executes nothing.
SyncTruncate(c, ok) ==
    /\ syncer[c] = "truncate"
    /\ ok => ~chClosed
    /\ chTable' = IF ok THEN "empty" ELSE chTable
    /\ syncer' = [syncer EXCEPT ![c] = IF ok THEN "insert" ELSE "unlock"]
    /\ chOutcome' = IF ok THEN chOutcome ELSE "failed"
    /\ UNCHANGED <<syncMu, chLoop, chClosed, chQuery, chGood, now, cacheVars,
                   duckVars, handlerVars, dcVars, calc>>

\* Lines 143-150: INSERT INTO events SELECT * FROM s3(...) starts loading
\* rows, or fails at once and syncFromS3 returns the error.
SyncInsert(c, ok) ==
    /\ syncer[c] = "insert"
    /\ ok => ~chClosed
    /\ chTable' = IF ok THEN "partial" ELSE chTable
    /\ syncer' = [syncer EXCEPT ![c] = IF ok THEN "inserting" ELSE "unlock"]
    /\ chOutcome' = IF ok THEN chOutcome ELSE "failed"
    /\ UNCHANGED <<syncMu, chLoop, chClosed, chQuery, chGood, now, cacheVars,
                   duckVars, handlerVars, dcVars, calc>>

\* Lines 148-158: the insert ends: every row is loaded, the rows are counted
\* and lastSync is set; or it fails midway, the rows loaded so far stay, and
\* syncFromS3 returns the error.
SyncInserted(c, ok) ==
    /\ syncer[c] = "inserting"
    /\ ok => ~chClosed
    /\ chTable' = IF ok THEN "full" ELSE "partial"
    /\ syncer' = [syncer EXCEPT ![c] = "unlock"]
    /\ chOutcome' = IF ok THEN "ok" ELSE "failed"
    /\ chGood' = (chGood \/ ok)
    /\ UNCHANGED <<syncMu, chLoop, chClosed, chQuery, now, cacheVars, duckVars,
                   handlerVars, dcVars, calc>>

\* Line 132: the deferred s.syncMu.Unlock(). The constructor logs a failure
\* and goes on to line 83, go store.refreshLoop(); the loop logs it and waits
\* for the next tick.
SyncUnlock(c) ==
    /\ syncer[c] = "unlock"
    /\ syncMu' = "none"
    /\ syncer' = [syncer EXCEPT ![c] = "idle"]
    /\ chLoop' = "wait"
    /\ UNCHANGED <<chTable, chClosed, chQuery, chGood, chOutcome, now, cacheVars,
                   duckVars, handlerVars, dcVars, calc>>

\* refreshLoop, lines 171-172: the ticker fires and syncFromS3 is called.
ChLoopTick ==
    /\ chLoop = "wait"
    /\ chLoop' = "sync"
    /\ syncer' = [syncer EXCEPT !["loop"] = "lock"]
    /\ UNCHANGED <<chTable, syncMu, chClosed, chQuery, chGood, chOutcome, now,
                   cacheVars, duckVars, handlerVars, dcVars, calc>>

\* refreshLoop, lines 168-170: stopCh is closed; the loop returns.
ChLoopStop ==
    /\ chLoop = "wait"
    /\ chClosed
    /\ chLoop' = "stopped"
    /\ UNCHANGED <<chTable, syncMu, syncer, chClosed, chQuery, chGood, chOutcome,
                   now, cacheVars, duckVars, handlerVars, dcVars, calc>>

\* Close, lines 88-91, called on the store the constructor returned.
ChClose ==
    /\ chLoop # "none"
    /\ ~chClosed
    /\ chClosed' = TRUE
    /\ UNCHANGED <<chTable, syncMu, syncer, chLoop, chQuery, chGood, chOutcome,
                   now, cacheVars, duckVars, handlerVars, dcVars, calc>>

\* Variant: a query method that waits for syncMu.
ChQueryRunLocked(q, ok) ==
    /\ chLoop # "none"
    /\ syncMu = "none"
    /\ ok => ~chClosed
    /\ chQuery' = [chQuery EXCEPT ![q] =
          [pc |-> "done", saw |-> IF ok THEN chTable ELSE "none", err |-> ~ok,
           afterFailure |-> (chGood /\ chOutcome = "failed"
                             /\ \A c \in Callers : syncer[c] = "idle"),
           during |-> FALSE]]
    /\ UNCHANGED <<chTable, syncMu, syncer, chLoop, chClosed, chGood, chOutcome,
                   now, cacheVars, duckVars, handlerVars, dcVars, calc>>

\* A query method (GetOverview, lines 185-207, and the others): it takes no
\* lock and reads the table as it is; a closed connection or the server can
\* answer with an error.
ChQueryRun(q, ok) ==
    /\ chLoop # "none"
    /\ ok => ~chClosed
    /\ chQuery' = [chQuery EXCEPT ![q] =
          [pc |-> "done", saw |-> IF ok THEN chTable ELSE "none", err |-> ~ok,
           afterFailure |-> (chGood /\ chOutcome = "failed"
                             /\ \A c \in Callers : syncer[c] = "idle"),
           during |-> \E c \in Callers : syncer[c] \notin {"idle", "lock"}]]
    /\ UNCHANGED <<chTable, syncMu, syncer, chLoop, chClosed, chGood, chOutcome,
                   now, cacheVars, duckVars, handlerVars, dcVars, calc>>

(***************************************************************************)
(* Domain authorization cache (type DomainCache, auth/domain_cache.go).    *)
(***************************************************************************)
\* Domain names: plain ones, and one holding a quote and a comma.
NameA == <<"a">>
NameB == <<"b">>
NameQ == <<Quote, ",", "q">>
Names == {NameA, NameB, NameQ}
\* The lists the stats server can answer with ("domains" absent or null gives
\* a nil slice).
RemoteLists == {NilList, ListOf(<<NameA, NameB>>), ListOf(<<NameQ, NameA>>)}
\* What the GET of refresh can meet: no response; a status other than 200; a
\* 200 whose body does not decode; a 200 with a list.
Responses == {[kind |-> k, list |-> NilList] : k \in {"neterr", "status", "garbled"}}
             \cup {[kind |-> "ok", list |-> l] : l \in RemoteLists}
NoResponseYet == [kind |-> "none", list |-> NilList]

NoFile == [exists |-> FALSE, data |-> <<>>]
FileOf(data) == [exists |-> TRUE, data |-> data]
\* The snapshot file a new process can find: none, a snapshot an earlier
\* process saved, or a file cut short.
InitialFiles == {NoFile, FileOf(<<>>), FileOf(MarshalStrings(ListOf(<<NameQ, NameB>>)))}

Checkers == {"d1"}
\* Number of times the process is started again in one behaviour.
MaxRestarts == 1

\* who: "ctor" (NewDomainCache) or "loop"; op: "refresh" or "load"; list: the
\* decoded list; i: the next element to insert; ret: what the call returns.
IdleTask == [who |-> "none", op |-> "none", pc |-> "idle", list |-> NilList,
             i |-> 0, resp |-> NoResponseYet, ret |-> "none"]
\* The process has started and NewDomainCache is about to run.
BootTask == [IdleTask EXCEPT !.who = "ctor", !.pc = "boot"]
CtorTask == [IdleTask EXCEPT !.who = "ctor", !.op = "refresh", !.pc = "fetch"]
\* inOld, inNew: whether d was in the last completely written set, and in the
\* set a write in progress is installing, when DomainExists read the map;
\* during: where the refresh or load in progress was at that moment.
IdleCheck == [pc |-> "idle", d |-> NameA, res |-> FALSE, inOld |-> FALSE,
              inNew |-> FALSE, during |-> "idle"]
\* ctorResp: what the constructor's refresh met; ctorRet: what it returned;
\* loaded: the constructor's loadFromFile succeeded; bg: the loop has started a
\* refresh; complete: the set as last completely written; saved: the list the
\* snapshot file holds, when known; afterStop: the loop started a refresh
\* after Stop; restarts: process starts so far.
DcNoHist == [ctorResp |-> NoResponseYet, ctorRet |-> "none", loaded |-> FALSE,
             bg |-> FALSE, complete |-> {},
             saved |-> [known |-> FALSE, list |-> NilList],
             afterStop |-> FALSE, restarts |-> 0]

DCInit ==
    /\ dcDomains = {}
    /\ dcMu = "none"
    /\ dcFile = NoFile
    /\ dcTask = BootTask
    /\ dcLoop = "none"
    /\ dcStopped = FALSE
    /\ dcCheck = [c \in Checkers |-> IdleCheck]
    /\ dcHist = DcNoHist

\* NewDomainCache is entered, lines 25-33, in a process that finds the
\* snapshot file f.
DcBoot(f) ==
    /\ dcTask.pc = "boot"
    /\ dcFile' = f
    /\ dcTask' = CtorTask
    /\ dcHist' = [dcHist EXCEPT !.saved =
                    IF f.exists /\ f.data # <<>>
                    THEN [known |-> TRUE, list |-> UnmarshalStrings(f.data).list]
                    ELSE [known |-> FALSE, list |-> NilList]]
    /\ UNCHANGED <<dcDomains, dcMu, dcLoop, dcStopped, dcCheck, now, cacheVars,
                   duckVars, handlerVars, chVars, calc>>

\* Variant: RLock that does not wait for the writer.
DcCanRLockAlways == TRUE
\* dc.mu.RLock waits while refresh or loadFromFile holds dc.mu.Lock.
DcCanRLock == dcMu = "none"

\* Variant: a body that does not decode is installed as an empty list.
RefreshResultLenient(resp) ==
    CASE resp.kind = "neterr" -> "err"
      [] resp.kind = "status" -> "nil"
      [] OTHER -> "go"
\* refresh, lines 68-83: client.Do fails: return err. A status other than 200:
\* `return err`, with err the nil error of client.Do. A body that does not
\* decode: return err. Otherwise the list is installed.
RefreshResult(resp) ==
    CASE resp.kind = "neterr" -> "err"
      [] resp.kind = "status" -> "nil"
      [] resp.kind = "garbled" -> "err"
      [] OTHER -> "go"

\* refresh, lines 60-83.
DcFetch(resp) ==
    /\ dcTask.pc = "fetch"
    /\ LET r == RefreshResult(resp) IN
         dcTask' = IF r = "go"
                   THEN [dcTask EXCEPT !.pc = "lock", !.list = resp.list, !.resp = resp]
                   ELSE [dcTask EXCEPT !.pc = "ret", !.ret = r, !.resp = resp]
    /\ dcHist' = IF dcTask.who = "ctor" THEN [dcHist EXCEPT !.ctorResp = resp]
                 ELSE dcHist
    /\ UNCHANGED <<dcDomains, dcMu, dcFile, dcLoop, dcStopped, dcCheck, now,
                   cacheVars, duckVars, handlerVars, chVars, calc>>

\* loadFromFile, lines 109-117: os.ReadFile, json.Unmarshal.
DcRead ==
    /\ dcTask.pc = "read"
    /\ LET u == IF dcFile.exists THEN UnmarshalStrings(dcFile.data)
                ELSE [ok |-> FALSE, list |-> NilList]
       IN dcTask' = IF u.ok THEN [dcTask EXCEPT !.pc = "lock", !.list = u.list]
                    ELSE [dcTask EXCEPT !.pc = "ret", !.ret = "err"]
    /\ UNCHANGED <<dcDomains, dcMu, dcFile, dcLoop, dcStopped, dcCheck, dcHist,
                   now, cacheVars, duckVars, handlerVars, chVars, calc>>

\* Lines 86-87 (119-120): dc.mu.Lock(); dc.domains = make(map[string]bool)
DcLock ==
    /\ dcTask.pc = "lock"
    /\ dcMu = "none"
    /\ dcMu' = "w"
    /\ dcDomains' = {}
    /\ dcTask' = [dcTask EXCEPT !.pc = "fill", !.i = 1]
    /\ UNCHANGED <<dcFile, dcLoop, dcStopped, dcCheck, dcHist, now, cacheVars,
                   duckVars, handlerVars, chVars, calc>>

\* Lines 88-90 (121-123): dc.domains[d] = true, one element of the list.
DcFill ==
    /\ dcTask.pc = "fill"
    /\ dcTask.i <= Len(dcTask.list.elems)
    /\ dcDomains' = dcDomains \cup {dcTask.list.elems[dcTask.i]}
    /\ dcTask' = [dcTask EXCEPT !.i = dcTask.i + 1]
    /\ UNCHANGED <<dcMu, dcFile, dcLoop, dcStopped, dcCheck, dcHist, now,
                   cacheVars, duckVars, handlerVars, chVars, calc>>

\* Variant: refresh keeps the lock until it has written the snapshot.
DcUnlockLate ==
    /\ dcTask.pc = "fill"
    /\ dcTask.i > Len(dcTask.list.elems)
    /\ dcMu' = IF dcTask.op = "refresh" THEN "w" ELSE "none"
    /\ dcTask' = IF dcTask.op = "refresh" THEN [dcTask EXCEPT !.pc = "save"]
                 ELSE [dcTask EXCEPT !.pc = "ret", !.ret = "nil"]
    /\ dcHist' = [dcHist EXCEPT !.complete = dcDomains]
    /\ UNCHANGED <<dcDomains, dcFile, dcLoop, dcStopped, dcCheck, now, cacheVars,
                   duckVars, handlerVars, chVars, calc>>
\* Line 91 (124): dc.mu.Unlock(); loadFromFile then returns nil.
DcUnlock ==
    /\ dcTask.pc = "fill"
    /\ dcTask.i > Len(dcTask.list.elems)
    /\ dcMu' = "none"
    /\ dcTask' = IF dcTask.op = "refresh" THEN [dcTask EXCEPT !.pc = "save"]
                 ELSE [dcTask EXCEPT !.pc = "ret", !.ret = "nil"]
    /\ dcHist' = [dcHist EXCEPT !.complete = dcDomains]
    /\ UNCHANGED <<dcDomains, dcFile, dcLoop, dcStopped, dcCheck, now, cacheVars,
                   duckVars, handlerVars, chVars, calc>>

\* saveToFile, lines 100-106, and refresh's return nil: os.WriteFile writes
\* the whole encoding, or fails before touching the file, or fails after
\* truncating it; its error is dropped.
DcSave(out) ==
    /\ dcTask.pc = "save"
    /\ dcFile' = CASE out = "ok" -> FileOf(MarshalStrings(dcTask.list))
                   [] out = "cut" -> FileOf(<<>>)
                   [] OTHER -> dcFile
    /\ dcHist' = [dcHist EXCEPT !.saved =
                    CASE out = "ok" -> [known |-> TRUE, list |-> dcTask.list]
                      [] out = "cut" -> [known |-> FALSE, list |-> NilList]
                      [] OTHER -> dcHist.saved]
    /\ dcTask' = [dcTask EXCEPT !.pc = "ret", !.ret = "nil"]
    /\ UNCHANGED <<dcDomains, dcMu, dcLoop, dcStopped, dcCheck, now, cacheVars,
                   duckVars, handlerVars, chVars, calc>>

\* Variant: every failed refresh, the loop's too, falls back on the file.
DcReturnFallback ==
    /\ dcTask.pc = "ret"
    /\ IF dcTask.op = "refresh" /\ dcTask.ret = "err"
       THEN /\ dcTask' = [IdleTask EXCEPT !.who = dcTask.who, !.op = "load",
                                          !.pc = "read"]
            /\ dcHist' = IF dcTask.who = "ctor"
                         THEN [dcHist EXCEPT !.ctorRet = "err"] ELSE dcHist
            /\ UNCHANGED dcLoop
       ELSE /\ dcTask' = IdleTask
            /\ dcLoop' = "wait"
            /\ dcHist' = IF dcTask.who # "ctor" THEN dcHist
                         ELSE IF dcTask.op = "refresh"
                           THEN [dcHist EXCEPT !.ctorRet = dcTask.ret]
                         ELSE [dcHist EXCEPT !.loaded = (dcTask.ret = "nil")]
    /\ UNCHANGED <<dcDomains, dcMu, dcFile, dcStopped, dcCheck, now, cacheVars,
                   duckVars, handlerVars, chVars, calc>>
\* The call returns. NewDomainCache, lines 33-44: a refresh error leads to
\* loadFromFile; then the loop is started and the cache returned.
\* backgroundRefresh, lines 137-139: an error is logged; back to the select.
DcReturn ==
    /\ dcTask.pc = "ret"
    /\ IF dcTask.who = "ctor" /\ dcTask.op = "refresh" /\ dcTask.ret = "err"
       THEN /\ dcTask' = [IdleTask EXCEPT !.who = "ctor", !.op = "load", !.pc = "read"]
            /\ dcHist' = [dcHist EXCEPT !.ctorRet = "err"]
            /\ UNCHANGED dcLoop
       ELSE /\ dcTask' = IdleTask
            /\ dcLoop' = "wait"
            /\ dcHist' = IF dcTask.who # "ctor" THEN dcHist
                         ELSE IF dcTask.op = "refresh"
                           THEN [dcHist EXCEPT !.ctorRet = dcTask.ret]
                         ELSE [dcHist EXCEPT !.loaded = (dcTask.ret = "nil")]
    /\ UNCHANGED <<dcDomains, dcMu, dcFile, dcStopped, dcCheck, now, cacheVars,
                   duckVars, handlerVars, chVars, calc>>

\* backgroundRefresh, lines 136-137: the select takes the ticker's case.
DcTick ==
    /\ dcLoop = "wait"
    /\ dcLoop' = "busy"
    /\ dcTask' = [IdleTask EXCEPT !.who = "loop", !.op = "refresh", !.pc = "fetch"]
    /\ dcHist' = [dcHist EXCEPT !.bg = TRUE, !.afterStop = (@ \/ dcStopped)]
    /\ UNCHANGED <<dcDomains, dcMu, dcFile, dcStopped, dcCheck, now, cacheVars,
                   duckVars, handlerVars, chVars, calc>>

\* backgroundRefresh, lines 140-141: the select takes the stopCh case.
DcLoopStop ==
    /\ dcLoop = "wait"
    /\ dcStopped
    /\ dcLoop' = "stopped"
    /\ UNCHANGED <<dcDomains, dcMu, dcFile, dcTask, dcStopped, dcCheck, dcHist,
                   now, cacheVars, duckVars, handlerVars, chVars, calc>>

\* Stop, lines 55-57, called on the cache NewDomainCache returned.
DcStop ==
    /\ dcLoop # "none"
    /\ ~dcStopped
    /\ dcStopped' = TRUE
    /\ UNCHANGED <<dcDomains, dcMu, dcFile, dcTask, dcLoop, dcCheck, dcHist, now,
                   cacheVars, duckVars, handlerVars, chVars, calc>>

\* DomainExists, lines 48-52, on the cache NewDomainCache returned.
DcExists(c, d) ==
    /\ dcLoop # "none"
    /\ DcCanRLock
    /\ dcCheck' = [dcCheck EXCEPT ![c] =
          [pc |-> "done", d |-> d, res |-> (d \in dcDomains),
           inOld |-> (d \in dcHist.complete),
           inNew |-> IF dcTask.pc \in {"lock", "fill"} THEN d \in ToSet(dcTask.list)
                     ELSE d \in dcHist.complete,
           during |-> dcTask.pc]]
    /\ UNCHANGED <<dcDomains, dcMu, dcFile, dcTask, dcLoop, dcStopped, dcHist,
                   now, cacheVars, duckVars, handlerVars, chVars, calc>>

\* The process ends and is started again: NewDomainCache, lines 25-33, with
\* the snapshot file as the earlier process left it.
DcRestart ==
    /\ dcLoop \in {"wait", "stopped"}
    /\ dcHist.restarts < MaxRestarts
    /\ dcDomains' = {}
    /\ dcMu' = "none"
    /\ dcTask' = CtorTask
    /\ dcLoop' = "none"
    /\ dcStopped' = FALSE
    /\ dcCheck' = [c \in Checkers |-> IdleCheck]
    /\ dcHist' = [DcNoHist EXCEPT !.saved = dcHist.saved,
                                  !.restarts = dcHist.restarts + 1]
    /\ UNCHANGED <<dcFile, now, cacheVars, duckVars, handlerVars, chVars, calc>>

(***************************************************************************)
(* The SQL of the query methods, as the engine evaluates it, and the Go    *)
(* code around it. Both backends: Store (part_003) and ClickHouseStore     *)
(* (store_clickhouse.go).                                                  *)
(***************************************************************************)
\* Events of one TopN query's window, at most.
MaxRows == 4
\* Largest limit a request asks for (parseLimit gives a positive limit).
MaxLimit == 3
\* Funnel steps, at most, and the largest distinct-visitor count of a step.
MaxSteps == 3
MaxCount == 3
\* Timestamps (seconds) of the events table for GetRecentEvents.
MaxEvents == 2

\* SQL NULL in a nullable string column.
SqlNull == "NULL"
\* Values of the grouped column (pathname, browser, country, device).
FieldValues == {"/a", "/b", "Unknown", "", SqlNull}
\* The order in which the engine emits groups of equal count is not fixed by
\* the query; tie says which of two orders of the names it takes.
GroupNames == <<"/a", "/b", "Unknown">>
TieOrders == {"fwd", "rev"}
Rank(tie, n) ==
    LET i == CHOOSE j \in 1..Len(GroupNames) : GroupNames[j] = n
    IN IF tie = "fwd" THEN i ELSE 0 - i

Min(a, b) == IF a <= b THEN a ELSE b

\* COALESCE(NULLIF(f, ''), 'Unknown') and if(f = '' OR f IS NULL, 'Unknown', f)
NameOf(v) == IF v = "" \/ v = SqlNull THEN "Unknown" ELSE v
\* GROUP BY name, COUNT(*)
GroupsOf(rows) == {NameOf(rows[i]) : i \in 1..Len(rows)}
CountOf(rows, name) ==
    Cardinality({i \in 1..Len(rows) : NameOf(rows[i]) = name})

\* ORDER BY count DESC over the groups gs.
RECURSIVE OrderByCountDesc(_, _, _)
OrderByCountDesc(gs, rows, tie) ==
    IF gs = {} THEN <<>>
    ELSE LET top == {g \in gs :
                       \A h \in gs : CountOf(rows, g) >= CountOf(rows, h)}
             first == CHOOSE g \in top :
                       \A h \in top : Rank(tie, g) <= Rank(tie, h)
         IN <<[name |-> first, count |-> CountOf(rows, first)]>>
            \o OrderByCountDesc(gs \ {first}, rows, tie)

\* Variant: the query without its LIMIT clause.
LimitNone(rs, n) == rs
\* LIMIT n
Limit(rs, n) == SubSeq(rs, 1, Min(n, Len(rs)))

\* A Go slice built by `var result []T` and append: nil until the first
\* append.
NilRows == [nil |-> TRUE, items |-> <<>>]
Scanned(rs) == IF rs = <<>> THEN NilRows ELSE [nil |-> FALSE, items |-> rs]

\* getTopBy and scanTopItems. A store that is not ready returns nil, nil;
\* ClickHouseStore has no such flag (ready = TRUE).
GetTopBy(isReady, rows, limit, tie) ==
    IF ~isReady THEN NilRows
    ELSE Scanned(Limit(OrderByCountDesc(GroupsOf(rows), rows, tie), limit))

\* float64 values: a quotient of integers in lowest terms, +Inf, or NaN.
RECURSIVE GCD(_, _)
GCD(a, b) == IF b = 0 THEN a ELSE GCD(b, a % b)
FloatZero == [kind |-> "num", num |-> 0, den |-> 1]
FloatOf(a, b) == [kind |-> "num", num |-> a \div GCD(a, b),
                  den |-> b \div GCD(a, b)]
\* float64(a) / float64(b) for a, b >= 0: dividing by zero is no panic in Go,
\* it gives +Inf, or NaN for 0/0.
FloatDiv(a, b) ==
    IF b = 0 THEN [kind |-> IF a = 0 THEN "NaN" ELSE "Inf", num |-> 0, den |-> 1]
    ELSE FloatOf(a, b)
\* x * 100
Times100(x) == IF x.kind = "num" THEN FloatOf(x.num * 100, x.den) ELSE x

\* Variant: the percentages are computed whatever the first count is.
StartAny(start) == TRUE
\* if result.TotalStart > 0
StartPositive(start) == start > 0

\* GetFunnel on n steps, counts[i] being what the i-th count query scanned
\* (0 when the query failed: the Scan error is ignored).
GetFunnel(isReady, n, counts) ==
    IF ~isReady \/ n < 2
    THEN [steps |-> [i \in 1..n |-> [count |-> 0, percent |-> FloatZero]],
          totalStart |-> 0, totalFinish |-> 0, conversion |-> FloatZero]
    ELSE LET start == counts[1]
             finish == counts[n]
         IN [steps |-> [i \in 1..n |->
                 [count |-> counts[i],
                  percent |-> IF StartPositive(start)
                              THEN Times100(FloatDiv(counts[i], start))
                              ELSE FloatZero]],
             totalStart |-> start, totalFinish |-> finish,
             conversion |-> IF StartPositive(start)
                            THEN Times100(FloatDiv(finish, start))
                            ELSE FloatZero]

\* The events table of one domain: at each timestamp there may be an event,
\* with its country and device columns (browser and os are treated like
\* country by both queries).
CountryValues == {"US", "", SqlNull}
DeviceValues == {"mobile", "", SqlNull}
NoEvent == [there |-> FALSE, country |-> SqlNull, device |-> SqlNull]
EventRows == {NoEvent}
             \cup [there : {TRUE}, country : CountryValues, device : DeviceValues]
Tables == [1..MaxEvents -> EventRows]

\* COALESCE(v, d)
Coalesce(v, d) == IF v = SqlNull THEN d ELSE v
\* if(v = '' OR v IS NULL, d, v)
IfEmptyOrNull(v, d) == IF v = "" \/ v = SqlNull THEN d ELSE v

\* The SELECT list of Store.GetRecentEvents, then Scan and ts.Format.
DuckEventItem(t, row) ==
    [country |-> Coalesce(row.country, "Unknown"),
     device |-> Coalesce(row.device, "desktop"),
     timestamp |-> EncodeInt(t)]
\* The SELECT list of ClickHouseStore.GetRecentEvents, then Scan and ts.Format.
ChEventItem(t, row) ==
    [country |-> IfEmptyOrNull(row.country, "Unknown"),
     device |-> IfEmptyOrNull(row.device, "desktop"),
     timestamp |-> EncodeInt(t)]

\* WHERE timestamp >= from AND timestamp < to ORDER BY timestamp DESC: the
\* timestamps of the selected events, from t downwards.
RECURSIVE OrderByTimestampDesc(_, _, _)
OrderByTimestampDesc(tbl, from, t) ==
    IF t < from THEN <<>>
    ELSE (IF tbl[t].there THEN <<t>> ELSE <<>>)
         \o OrderByTimestampDesc(tbl, from, t - 1)

DuckGetRecentEvents(isReady, tbl, from, to, limit) ==
    IF ~isReady THEN NilRows
    ELSE LET ts == Limit(OrderByTimestampDesc(tbl, from, to - 1), limit)
         IN Scanned([i \in 1..Len(ts) |-> DuckEventItem(ts[i], tbl[ts[i]])])

ChGetRecentEvents(tbl, from, to, limit) ==
    LET ts == Limit(OrderByTimestampDesc(tbl, from, to - 1), limit)
    IN Scanned([i \in 1..Len(ts) |-> ChEventItem(ts[i], tbl[ts[i]])])

NoCall == [op |-> "none"]

\* The domain and period parameters of a request are arbitrary strings of the
\* query string; a domain may carry a port.
KeyDomains == {"a.io", "a.io:80", "b.io"}
KeyPeriods == {"", "7d", "80:7d", "today"}
\* What a caching handler reads from a request: its kind, the domain and the
\* raw period, and for pages the limit (0 stands for: not a parameter).
KeyRequests ==
    [kind : {"overview", "pageviews"}, domain : KeyDomains,
     period : KeyPeriods, limit : {0}]
    \cup [kind : {"pages"}, domain : KeyDomains, period : KeyPeriods,
          limit : 1..MaxLimit]

\* Two requests reach their handlers, which build the cache keys.
KeyCall(a, b) ==
    /\ calc = NoCall
    /\ calc' = [op |-> "keys", a |-> a, b |-> b,
                keyA |-> CacheKeyOf(a.kind, a.domain, a.period, a.limit),
                keyB |-> CacheKeyOf(b.kind, b.domain, b.period, b.limit)]
    /\ UNCHANGED <<now, cacheVars, duckVars, handlerVars, chVars, dcVars>>
SqlInit == calc = NoCall

RowsInputs == UNION {[1..n -> FieldValues] : n \in 0..MaxRows}

\* A TopN method (GetTopPages, GetTopBrowsers, GetTopCountries,
\* GetTopDevices) is called with a limit on a window holding rows.
TopByCall(isReady, rows, limit, tie) ==
    /\ calc = NoCall
    /\ calc' = [op |-> "top", ready |-> isReady, rows |-> rows,
                limit |-> limit, result |-> GetTopBy(isReady, rows, limit, tie)]
    /\ UNCHANGED <<now, cacheVars, duckVars, handlerVars, chVars, dcVars>>

\* GetFunnel is called with n steps whose count queries give counts.
FunnelCall(isReady, n, counts) ==
    /\ calc = NoCall
    /\ calc' = [op |-> "funnel", ready |-> isReady, n |-> n,
                counts |-> counts, result |-> GetFunnel(isReady, n, counts)]
    /\ UNCHANGED <<now, cacheVars, duckVars, handlerVars, chVars, dcVars>>

\* GetRecentEvents is called on both backends holding the same table.
RecentEventsCall(isReady, tbl, from, to, limit) ==
    /\ calc = NoCall
    /\ calc' = [op |-> "events", ready |-> isReady, tbl |-> tbl,
                from |-> from, to |-> to, limit |-> limit,
                duck |-> DuckGetRecentEvents(isReady, tbl, from, to, limit),
                ch |-> ChGetRecentEvents(tbl, from, to, limit)]
    /\ UNCHANGED <<now, cacheVars, duckVars, handlerVars, chVars, dcVars>>

\* The clock advances.
Tick ==
    /\ now < MaxTime
    /\ now' = now + 1
    /\ UNCHANGED <<cacheVars, duckVars, handlerVars, chVars, dcVars, calc>>

Init ==
    /\ now = 0
    /\ CacheInit
    /\ DuckInit
    /\ HandlerInit
    /\ CHInit
    /\ DCInit
    /\ SqlInit

\* The steps of the goroutines in ws (calling Set) and rs (calling Get) on the
\* keys ks, of the sweeper and of the clock.
CacheSteps(ws, rs, ks) ==
    \/ \E w \in ws, k \in ks : \E val \in SetValues(k) : SetCall(w, k, val)
    \/ \E w \in ws : SetLock(w) \/ SetUnlock(w)
    \/ \E r \in rs, k \in ks : GetCall(r, k, DestFor(k))
    \/ \E r \in rs : GetRLock(r) \/ GetRUnlock(r) \/ GetReturn(r)
    \/ Cleanup
    \/ Tick

\* One caller of Set and one of Get, on every key.
NextCache == CacheSteps({"w1"}, {"r1"}, Keys)

SpecCache == Init /\ [][NextCache]_vars

\* TestCache_Concurrent: the writers and the readers all work on one key.
NextCacheConc == CacheSteps(Writers, Readers, {"k1"})

SpecCacheConc == Init /\ [][NextCacheConc]_vars

\* The embedded store: its background task and its queries.
NextDuck ==
    \/ \E ok \in BOOLEAN : SetupExec(ok)
    \/ RefreshLock
    \/ \E ok \in BOOLEAN : RefreshDrop(ok)
    \/ \E ok \in BOOLEAN : RefreshCreate(ok)
    \/ \E ok \in BOOLEAN : RefreshCreated(ok)
    \/ RefreshUnlock
    \/ MarkReady
    \/ SpawnLoop
    \/ LoopTick
    \/ DuckClose
    \/ \E q \in Queriers, m \in Methods : QCall(q, m)
    \/ \E q \in Queriers : QLock(q) \/ QSource(q) \/ QUnlock(q)
    \/ \E q \in Queriers, out \in {"rows", "empty", "err", "partial"} : QExec(q, out)

SpecDuck == Init /\ [][NextDuck]_vars

\* The query service: requests, the cache's sweeper and the clock.
NextHandler ==
    \/ \E h \in Clients, ep \in Endpoints, d \in Domains, p \in Periods :
          HRequest(h, ep, d, p)
    \/ \E h \in Clients, out \in {"rows", "empty", "err"} : HServe(h, out)
    \/ Cleanup
    \/ Tick

SpecHandler == Init /\ [][NextHandler]_vars

\* The overview handler in front of an embedded store that starts not ready:
\* initS3 up to s.ready = true, the requests, the sweeper, the clock.
NextHandlerCold ==
    \/ \E ok \in BOOLEAN : SetupExec(ok)
    \/ RefreshLock
    \/ \E ok \in BOOLEAN : RefreshDrop(ok)
    \/ \E ok \in BOOLEAN : RefreshCreate(ok)
    \/ \E ok \in BOOLEAN : RefreshCreated(ok)
    \/ RefreshUnlock
    \/ MarkReady
    \/ \E h \in Clients, d \in Domains, p \in Periods :
          HRequest(h, "overview", d, p)
    \/ \E h \in Clients, out \in ColdOutcomes : HServe(h, out)
    \/ Cleanup
    \/ Tick

SpecHandlerCold == Init /\ [][NextHandlerCold]_vars

\* The replicated store: its syncs, its loop, Close and its queries.
NextCH ==
    \/ \E c \in Callers : SyncLock(c) \/ SyncUnlock(c)
    \/ \E c \in Callers, ok \in BOOLEAN :
          SyncTruncate(c, ok) \/ SyncInsert(c, ok) \/ SyncInserted(c, ok)
    \/ ChLoopTick
    \/ ChLoopStop
    \/ ChClose
    \/ \E q \in ChQueriers, ok \in BOOLEAN : ChQueryRun(q, ok)

SpecCH == Init /\ [][NextCH]_vars

\* The domain cache: construction, the background loop, Stop, DomainExists
\* and a restart of the process.
NextDC ==
    \/ \E f \in InitialFiles : DcBoot(f)
    \/ \E resp \in Responses : DcFetch(resp)
    \/ DcRead
    \/ DcLock
    \/ DcFill
    \/ DcUnlock
    \/ \E out \in {"ok", "cut", "failed"} : DcSave(out)
    \/ DcReturn
    \/ DcTick
    \/ DcLoopStop
    \/ DcStop
    \/ \E c \in Checkers, d \in Names : DcExists(c, d)
    \/ DcRestart

SpecDC == Init /\ [][NextDC]_vars

\* The cache keys of pairs of requests.
NextKeys ==
    /\ calc = NoCall
    /\ \E a \in KeyRequests, b \in KeyRequests : KeyCall(a, b)

SpecKeys == Init /\ [][NextKeys]_vars

\* The query methods as functions of the table contents and their arguments.
NextSql ==
    \/ /\ calc = NoCall
       /\ \E isReady \in BOOLEAN, rows \in RowsInputs, limit \in 1..MaxLimit,
             tie \in TieOrders : TopByCall(isReady, rows, limit, tie)
    \/ /\ calc = NoCall
       /\ \E isReady \in BOOLEAN, n \in 0..MaxSteps :
             \E counts \in [1..n -> 0..MaxCount] :
                FunnelCall(isReady, n, counts)
    \/ /\ calc = NoCall
       /\ \E isReady \in BOOLEAN, tbl \in Tables, from \in 1..MaxEvents,
             to \in 2..(MaxEvents + 1), limit \in 1..MaxLimit :
                from < to /\ RecentEventsCall(isReady, tbl, from, to, limit)

SpecSql == Init /\ [][NextSql]_vars

(***************************************************************************)
(* Claims about the TTL cache.                                             *)
(***************************************************************************)
\* The entry Set(k, val) at instant at leaves in the map.
EntryOf(s) ==
    [present |-> TRUE, buf |-> Marshal(s.val).data,
     len |-> Len(Marshal(s.val).data), expiresAt |-> s.at + TTL]

\* C1: a Get of key k whose clock reading is within the TTL of the most recent
\* Set that stored k (at the time Get read the map) returns found and exactly
\* that Set's value; one whose clock reading is past that TTL, or that finds no
\* Set at all, returns not found, swept or not. Between writes the map holds for
\* each key exactly the serialized value of the most recent storing Set with
\* expiry = its instant + TTL, or nothing once that expiry has passed (swept).
\* (A Set whose value json.Marshal rejects stores nothing and is not counted
\* as "the most recent Set" here.)
C1_GetReturnsLastSetWithinTTL ==
    /\ \A r \in Readers : reader[r].pc = "done" =>
         LET s == reader[r].seen IN
           /\ ~s.some => ~reader[r].found
           /\ (s.some /\ reader[r].retAt <= s.at + TTL) =>
                 (reader[r].found /\ reader[r].val = s.val)
           /\ (s.some /\ reader[r].retAt > s.at + TTL) => ~reader[r].found
    /\ \A k \in Keys : (mu.w = "none" /\ lastStored[k].some) =>
           \/ items[k] = EntryOf(lastStored[k])
           \/ ~items[k].present /\ now > lastStored[k].at + TTL

\* C1 witness: a Get returned not found for an entry that had expired but was
\* still in the map (the sweep had not removed it), after an overwrite of a key.
C1_Witness ==
    \E r \in Readers :
        /\ reader[r].pc = "done"
        /\ ~reader[r].found
        /\ reader[r].had
        /\ reader[r].seen.some
        /\ nSets >= 2

\* C2: no Get faults, and every Get that returns found returns one complete
\* value that some writer passed to Set.
C2_NoTornOrForeignValue ==
    /\ ~fault
    /\ \A r \in Readers :
          (reader[r].pc = "done" /\ reader[r].found) => reader[r].val \in written

\* C2 witness: a reader has returned one writer's value while another writer is
\* in the middle of storing a different value under the same key.
C2_Witness ==
    \E r \in Readers, w \in Writers :
        /\ reader[r].pc = "done"
        /\ reader[r].found
        /\ reader[r].val = IntVal(12)
        /\ writer[w].pc = "store"
        /\ writer[w].key = reader[r].key
        /\ writer[w].val = IntVal(3)

(***************************************************************************)
(* Claims about the embedded-engine store.                                 *)
(***************************************************************************)
InQuery(q) == query[q].pc \in {"source", "exec", "unlock"}
InRefresh == bg.rpc \in {"drop", "create", "creating", "unlock"}

\* C5: a refresh and a query never run at the same time: a query holds s.mu
\* from before it chooses its table source until its rows are read, the
\* refresh holds it from before the drop until after the create, the table is
\* only ever incomplete under the refresh's lock, and no query got rows of a
\* partly filled table.
C5_RefreshExcludesQueries ==
    /\ \A q \in Queriers : InQuery(q) => smu = q
    /\ InRefresh => smu = "refresh"
    /\ \A q \in Queriers : ~(InQuery(q) /\ InRefresh)
    /\ table = "building" => smu = "refresh"
    /\ \A q \in Queriers : ~query[q].res.torn

\* C5 witness: a query waits for the lock while the refresh has dropped the
\* table and is filling the new one.
C5_Witness ==
    \E q \in Queriers : query[q].pc = "lock" /\ table = "building"

\* C6 as stated: a query that got its result while no materialization had
\* ever succeeded returned the zero result and no error.
C6_ZeroUntilFirstSuccess ==
    \A q \in Queriers :
        (query[q].pc = "done" /\ ~query[q].warm) =>
            query[q].res = NotReadyResult(query[q].method)

\* C6 amended: a query called while the store is not marked ready returns the
\* zero result and no error, without reaching the engine.
C6_ZeroUntilReady ==
    \A q \in Queriers :
        (query[q].pc = "done" /\ ~query[q].ready) =>
            /\ query[q].res = NotReadyResult(query[q].method)
            /\ ~query[q].db

\* C6 witness: the first materialization has failed, the store is not yet
\* marked ready, and a query has returned its zero result.
C6_Witness ==
    /\ ~ready
    /\ lastOutcome = "failed"
    /\ \E q \in Queriers : query[q].pc = "done" /\ ~query[q].ready

\* C7 as stated: no failure ends the background task.
C7_BackgroundTaskNeverEnds == bg.phase # "exited"

\* C8: a query chooses the remote files exactly when the last materialization
\* failed and the local table when it succeeded, and the table it then reads
\* is complete; after a failed materialization the periodic loop is (about to
\* be) running, so the next tick materializes again.
C8_RemoteFilesAfterFailedRefresh ==
    /\ \A q \in Queriers : query[q].pc \in {"exec", "unlock"} =>
          /\ lastOutcome = "failed" => query[q].src = "parquet"
          /\ lastOutcome = "ok" => query[q].src = "events"
          /\ lastOutcome # "none"
          /\ query[q].src = "events" => table = "full"
    /\ (lastOutcome = "failed" /\ bg.rpc = "idle") =>
          bg.phase \in {"markReady", "spawn", "loop"}
    /\ bg.phase = "loop" => ENABLED LoopTick

\* C8 witness: after a failed cycle and a later successful one, a query reads
\* the local table again.
C8_Witness ==
    /\ hadFailure
    /\ \E q \in Queriers : query[q].pc = "exec" /\ query[q].src = "events"

(***************************************************************************)
(* Claims about the query service.                                         *)
(***************************************************************************)
\* The request of r was received within the TTL of the last successful store
\* result for the same request.
Fresh(r) == r.prior.some /\ r.at <= r.prior.at + TTL

\* C3: a request whose store call returned an error is answered with 500 and
\* stored nothing, the step that answers it leaves the whole cache as it was,
\* and a later request like it that finds no fresh entry calls the store again;
\* whatever a request is served from the cache is a successful store result.
C3_StoreErrorNotCached ==
    /\ [](\A h \in Clients : req[h].pc = "done" =>
            /\ req[h].err => (req[h].resp = WriteError /\ ~req[h].set.some
                              /\ ~req[h].hit)
            /\ (req[h].prevFailed /\ ~Fresh(req[h])) => req[h].called
            /\ req[h].hit => (req[h].prior.some
                              /\ req[h].resp = WriteJSON(req[h].prior.val)))
    /\ [][\A h \in Clients :
            (req[h].pc = "store" /\ req'[h].pc = "done" /\ req'[h].err) =>
                (items' = items /\ lastStored' = lastStored)]_vars

\* C3 witness: a request of a caching handler ended in a store error, and a
\* later request like it has called the store.
C3_Witness ==
    \E h \in Clients :
        /\ req[h].pc = "done"
        /\ Cached(req[h].ep)
        /\ req[h].prevFailed
        /\ req[h].called

\* C4 as stated, for every endpoint: a request received within the TTL of the
\* last successful store result for the same request is served that result
\* without a store call; any other request calls the store and, on success,
\* stores and returns its result.
C4_EveryEndpointServedFromCache ==
    \A h \in Clients : req[h].pc = "done" =>
        LET r == req[h] IN
          /\ Fresh(r) => (~r.called /\ r.resp = WriteJSON(r.prior.val))
          /\ ~Fresh(r) => (r.called /\ (~r.err =>
                              (r.set.some /\ r.set.val = r.data
                               /\ r.resp = WriteJSON(r.data))))

\* C4 amended: that holds of the handlers that use the cache (overview,
\* pageviews, pages), whose cache entry is the last stored result with expiry
\* at its instant + TTL; every other handler calls the store on each request
\* and stores nothing.
C4_CachingHandlersServedFromCache ==
    /\ \A h \in Clients : req[h].pc = "done" =>
        LET r == req[h] IN
          /\ (Cached(r.ep) /\ Fresh(r)) =>
                (r.hit /\ ~r.called /\ r.resp = WriteJSON(r.prior.val))
          /\ (Cached(r.ep) /\ ~Fresh(r)) =>
                (~r.hit /\ r.called /\ (~r.err =>
                    (r.set.some /\ r.set.val = r.data
                     /\ r.resp = WriteJSON(r.data))))
          /\ ~Cached(r.ep) => (r.called /\ ~r.hit /\ ~r.set.some
                               /\ (~r.err => r.resp = WriteJSON(r.data)))
    /\ \A ep \in Endpoints, d \in Domains, p \in Periods :
          (Cached(ep) /\ fetched[<<ep, d, p>>].some) =>
             LET k == CacheKey(ep, d, p) IN
               /\ lastStored[k] = fetched[<<ep, d, p>>]
               /\ \/ items[k] = EntryOf(lastStored[k])
                  \/ ~items[k].present /\ now > lastStored[k].at + TTL

\* C4 witness: one request missed, called the store and stored the rows; a
\* second identical request within the TTL was served from the cache.
C4_Witness ==
    \E h, o \in Clients :
        /\ h # o
        /\ req[h].pc = "done" /\ req[h].hit
        /\ req[o].pc = "done" /\ req[o].set.some
        /\ ReqId(req[o]) = ReqId(req[h])
        /\ req[h].prior = req[o].set
        /\ req[h].resp = WriteJSON(SliceVal(<<7>>))

(***************************************************************************)
(* Claims about the replicated store.                                      *)
(***************************************************************************)
InSync(c) == syncer[c] \in {"truncate", "insert", "inserting", "unlock"}

\* C9: at most one sync is between its truncate and the end of its insert, it
\* holds syncMu for all of that time, and the table is only being filled by
\* the sync that holds the lock.
C9_OneSyncInFlight ==
    /\ \A c \in Callers : InSync(c) => syncMu = c
    /\ Cardinality({c \in Callers : InSync(c)}) <= 1
    /\ syncMu # "none" => InSync(syncMu)

\* C9 witness: the loop's sync is loading rows after the constructor's sync
\* has finished.
C9_Witness ==
    /\ syncer["loop"] = "inserting"
    /\ syncer["ctor"] = "idle"
    /\ chOutcome # "none"

\* C10 as stated: once a sync has completed, then after a failed sync (none
\* being in flight) the table still holds the rows of the completed sync, and
\* a query reads them.
C10_LastGoodRowsSurviveFailedSync ==
    /\ (chGood /\ chOutcome = "failed" /\ \A c \in Callers : syncer[c] = "idle")
          => chTable = "full"
    /\ \A q \in ChQueriers :
          (chQuery[q].afterFailure /\ ~chQuery[q].err) => chQuery[q].saw = "full"

\* C11: no query method takes the sync lock, and a query can run at every
\* moment of a sync in flight (the store being open).
C11_QueriesDoNotWaitForSync ==
    /\ syncMu \notin ChQueriers
    /\ \A q \in ChQueriers :
          (chLoop # "none" /\ ~chClosed) => ENABLED ChQueryRun(q, TRUE)

\* C11 witness: after a sync had completed, one query read the table empty
\* and another read it partly reloaded, both while a later sync was in flight.
C11_Witness ==
    /\ chGood
    /\ \E q, o \in ChQueriers :
          /\ chQuery[q].during /\ chQuery[q].saw = "empty"
          /\ chQuery[o].during /\ chQuery[o].saw = "partial"

(***************************************************************************)
(* Claims about the domain authorization cache.                            *)
(***************************************************************************)
\* The set the chain "remote list, else snapshot file, else empty" gives for
\* what the constructor's refresh met and the snapshot file it found.
DcExpected ==
    LET u == IF dcFile.exists THEN UnmarshalStrings(dcFile.data)
             ELSE [ok |-> FALSE, list |-> NilList]
    IN IF dcHist.ctorResp.kind = "ok" THEN ToSet(dcHist.ctorResp.list)
       ELSE IF u.ok THEN ToSet(u.list)
       ELSE {}

\* C12 as stated: from the end of construction until the first background
\* refresh, the set is the fetched list if the remote refresh succeeded (a 200
\* with a decodable body), else the snapshot's list if the file loads, else
\* empty; and DomainExists answers by that set.
C12_ConstructionFallbackChain ==
    (dcLoop # "none" /\ ~dcHist.bg) =>
        /\ dcDomains = DcExpected
        /\ \A c \in Checkers :
              dcCheck[c].pc = "done" => dcCheck[c].res = (dcCheck[c].d \in DcExpected)

\* C13 as stated: a refresh that met a status other than 200 or a body that
\* does not decode returns a non-nil error.
C13_BadResponseIsRefreshFailure ==
    (dcTask.pc = "ret" /\ dcTask.op = "refresh"
        /\ dcTask.resp.kind \in {"status", "garbled"}) => dcTask.ret = "err"

\* C14: once a refresh has installed the fetched list L the set is exactly L;
\* outside a write the set is the last completely written one; and every
\* DomainExists answered by the complete previous set or the complete new one.
C14_RefreshReplacesSetAtomically ==
    /\ (dcTask.op = "refresh" /\ dcTask.pc \in {"save", "ret"}
           /\ dcTask.resp.kind = "ok") => dcDomains = ToSet(dcTask.list)
    /\ dcMu = "none" => dcDomains = dcHist.complete
    /\ \A c \in Checkers : dcCheck[c].pc = "done" =>
          (dcCheck[c].res = dcCheck[c].inOld \/ dcCheck[c].res = dcCheck[c].inNew)

\* C14 witness: the constructor fetched a list holding b, a background refresh
\* has installed a list without it, and DomainExists(b) answered false.
C14_Witness ==
    /\ dcHist.ctorResp = [kind |-> "ok", list |-> ListOf(<<NameA, NameB>>)]
    /\ dcHist.bg
    /\ \E c \in Checkers :
          /\ dcCheck[c].pc = "done"
          /\ dcCheck[c].d = NameB
          /\ ~dcCheck[c].res

\* C15: the snapshot file written for a list decodes to exactly that list, and
\* a cache constructed from it while the remote source is unreachable holds
\* exactly the list's domains.
C15_SnapshotRoundTrip ==
    /\ dcHist.saved.known =>
          /\ dcFile.exists
          /\ UnmarshalStrings(dcFile.data) = [ok |-> TRUE, list |-> dcHist.saved.list]
    /\ (dcLoop # "none" /\ ~dcHist.bg /\ dcHist.ctorResp.kind = "neterr"
           /\ dcHist.saved.known) =>
          /\ dcHist.loaded
          /\ dcDomains = ToSet(dcHist.saved.list)
          /\ \A c \in Checkers : dcCheck[c].pc = "done" =>
                dcCheck[c].res = (dcCheck[c].d \in ToSet(dcHist.saved.list))

\* C15 witness: a refresh saved a list with a name that needs escaping; the
\* process was started again with the remote source unreachable, loaded the
\* file, and DomainExists finds that name.
C15_Witness ==
    /\ dcHist.restarts >= 1
    /\ dcHist.ctorResp.kind = "neterr"
    /\ dcHist.loaded
    /\ ~dcHist.bg
    /\ dcHist.saved.list = ListOf(<<NameQ, NameA>>)
    /\ \E c \in Checkers :
          dcCheck[c].pc = "done" /\ dcCheck[c].d = NameQ /\ dcCheck[c].res

\* C16 as stated: the background loop starts no refresh after Stop.
C16_NoCycleAfterStop == ~dcHist.afterStop

(***************************************************************************)
(* Claims on the query methods.                                            *)
(***************************************************************************)
\* The number of distinct values of the grouping expression in the window.
DistinctGroups(rows) == Cardinality({NameOf(rows[i]) : i \in 1..Len(rows)})

\* C17: a TopN query with limit N over M distinct group values, answered by
\* a ready store, returns its items in non-increasing order of count and
\* returns exactly min(N, M) of them: each a distinct group of the window
\* with its true count (nothing padded), never more than N.
C17_TopNOrderedAndLimited ==
    (calc.op = "top" /\ calc.ready) =>
        LET r == calc.result.items
            M == DistinctGroups(calc.rows)
        IN /\ Len(r) = Min(calc.limit, M)
           /\ Len(r) <= calc.limit
           /\ \A i \in 1..Len(r) : \A j \in 1..Len(r) :
                 i < j => r[i].count >= r[j].count /\ r[i].name # r[j].name
           /\ \A i \in 1..Len(r) :
                 /\ r[i].count >= 1
                 /\ r[i].count = CountOf(calc.rows, r[i].name)

\* A window with more groups than the limit, one of them the merged group of
\* empty and NULL values, answered with counts that differ.
C17_Witness ==
    /\ calc.op = "top" /\ calc.ready
    /\ DistinctGroups(calc.rows) > calc.limit
    /\ calc.limit >= 2
    /\ \E i \in 1..Len(calc.rows) : calc.rows[i] = ""
    /\ Len(calc.result.items) = calc.limit
    /\ calc.result.items[1].count > calc.result.items[2].count

\* C18: in every funnel result with at least one step, TotalStart is the
\* first step's count and TotalFinish the last one's; when the first count is
\* 0 every percent and the conversion are 0 and no division by zero took
\* place (no Inf, no NaN); when it is positive, step i's percent is
\* count[i] / count[0] * 100 and the conversion count[last] / count[0] * 100.
C18_FunnelPercentages ==
    (calc.op = "funnel" /\ calc.n > 0) =>
        LET r == calc.result
            n == calc.n
            c0 == r.steps[1].count
        IN /\ DOMAIN r.steps = 1..n
           /\ r.totalStart = c0
           /\ r.totalFinish = r.steps[n].count
           /\ r.conversion.kind = "num"
           /\ \A i \in 1..n : r.steps[i].percent.kind = "num"
           /\ c0 = 0 =>
                /\ r.conversion = FloatZero
                /\ \A i \in 1..n : r.steps[i].percent = FloatZero
           /\ c0 > 0 =>
                /\ r.conversion.num * c0
                      = r.steps[n].count * 100 * r.conversion.den
                /\ \A i \in 1..n :
                      r.steps[i].percent.num * c0
                         = r.steps[i].count * 100 * r.steps[i].percent.den

\* A funnel on a ready store whose first step counted nobody and whose last
\* step counted somebody.
C18_Witness ==
    /\ calc.op = "funnel" /\ calc.ready /\ calc.n >= 2
    /\ calc.result.steps[1].count = 0
    /\ calc.result.steps[calc.n].count > 0
    /\ calc.result.conversion = FloatZero

\* C19: a response of the query service that carries a collection carries a
\* JSON array, never null: when the store had nothing to return (not ready,
\* or no row matched) and when the value came from the cache.
C19_CollectionsNeverNull ==
    \A h \in Clients :
        (/\ req[h].pc = "done"
         /\ req[h].resp.code = 200
         /\ DestOf(req[h].ep) = "slice")
        => req[h].resp.body # <<"null">>

\* C20: on the same table, with the same window and limit, both backends
\* return the same GetRecentEvents result.
C20_RecentEventsSameOnBothBackends ==
    (calc.op = "events" /\ calc.ready) => calc.duck = calc.ch

(***************************************************************************)
(* Claims on failures of a query method's database call.                   *)
(***************************************************************************)
\* C21: when the database call of a query method fails, the method returns
\* an error to its caller (which the query service answers with a failure)
\* and not a result built from default values; GetFunnel's count queries
\* included.
C21_DbFailureIsReturned ==
    \A q \in Queriers :
        (query[q].db /\ query[q].dbErr) => query[q].res.err

\* C22: two cached queries that differ in kind, domain, period token or limit
\* never have the same cache key, whatever strings the domain and the period
\* are.
C22_DistinctRequestsDistinctKeys ==
    (calc.op = "keys" /\ calc.a # calc.b) => calc.keyA # calc.keyB

\* C23: after Close on the embedded-engine store the periodic refresh task
\* ends: its loop starts no materialization on the closed engine.
C23_NoRefreshAfterClose ==
    [][(dbClosed /\ bg.phase = "loop") => bg'.phase = "loop"]_vars

(***************************************************************************)
(* Further claims on the domain authorization cache.                       *)
(***************************************************************************)
\* A refresh call that met a request error, a status other than 200 or a
\* body that does not decode.
FailingRefresh ==
    /\ dcTask.op = "refresh"
    /\ dcTask.resp.kind \in {"neterr", "status", "garbled"}

\* C24: a refresh that fails (request error, non-200 status, decode failure)
\* goes straight to its return and leaves the in-memory set and the snapshot
\* file as they were: the set is still the last completely written one, no
\* step taken while the call is returning changes the set or the file, and
\* when the loop made the call it is back waiting for its next tick.
C24_FailedRefreshChangesNothing ==
    /\ [](FailingRefresh =>
            /\ dcTask.pc = "ret"
            /\ dcMu = "none"
            /\ dcDomains = dcHist.complete)
    /\ [][FailingRefresh =>
            /\ dcDomains' = dcDomains
            /\ dcFile' = dcFile
            /\ (dcTask.who = "loop" /\ dcTask' # dcTask) => dcLoop' = "wait"]_vars

\* The loop's refresh met a body that does not decode, with a set and a
\* snapshot in place.
C24_Witness ==
    /\ FailingRefresh
    /\ dcTask.who = "loop"
    /\ dcTask.resp.kind = "garbled"
    /\ dcDomains # {}
    /\ dcFile.exists /\ dcFile.data # <<>>

\* C25: the cache's lock is held only while the set is replaced in memory,
\* never while the HTTP fetch or the snapshot write is in progress; so while
\* a refresh is fetching (however long the remote authority takes) or
\* saving, DomainExists can run to completion for every caller and domain.
C25_LockNotHeldDuringIO ==
    /\ dcMu = "w" => dcTask.pc = "fill"
    /\ (dcTask.pc \in {"fetch", "save"} /\ dcLoop # "none") =>
          /\ dcMu = "none"
          /\ \A c \in Checkers, d \in Names : ENABLED DcExists(c, d)

\* A DomainExists call has completed during the fetch of a refresh that is
\* still waiting for its answer.
C25_Witness ==
    \E c \in Checkers :
        /\ dcCheck[c].pc = "done"
        /\ dcCheck[c].during = "fetch"
        /\ dcTask.pc = "fetch"
        /\ dcTask.who = "loop"

\* C26: the snapshot file is read only by the constructor, only after its
\* remote refresh returned an error, and before any set was installed from
\* the remote authority; a load is entered only from that failed refresh, and
\* when it ends the constructor returns and the loop takes over, so an
\* instance loads at most once and no background cycle ever loads.
C26_FileReadOnceAtConstruction ==
    /\ [](dcTask.op = "load" =>
            /\ dcTask.who = "ctor"
            /\ dcLoop = "none"
            /\ ~dcHist.bg
            /\ dcHist.ctorRet = "err"
            /\ dcHist.ctorResp.kind \in {"neterr", "garbled"})
    /\ [][/\ (dcTask'.op = "load" /\ dcTask.op # "load") =>
               (dcTask.who = "ctor" /\ dcTask.op = "refresh"
                  /\ dcTask.ret = "err")
          /\ (dcTask.op = "load" /\ dcTask'.op # "load") => dcLoop' = "wait"
          /\ (dcLoop # "none" /\ dcLoop' # "none") => dcTask'.op # "load"]_vars

\* The constructor loaded the snapshot, and a later cycle of the loop has
\* installed the remote list and is about to save it.
C26_Witness ==
    /\ dcHist.loaded
    /\ dcHist.bg
    /\ dcTask.who = "loop"
    /\ dcTask.pc = "save"
    /\ dcDomains # {}

(***************************************************************************)
(* Further claims on the TTL cache.                                        *)
(***************************************************************************)
\* C27: a run of the sweep comes no sooner than one TTL after the previous
\* one (after construction for the first) and the next is due one TTL later;
\* it removes exactly the entries whose expiry instant lies before the
\* instant of the run and leaves every other entry as it was, so right after
\* the run no stored entry is expired.
C27_SweepRemovesExactlyExpired ==
    /\ [](sweeper.wakeAt <= now + TTL)
    /\ [][sweeper' # sweeper =>
            /\ now >= sweeper.wakeAt
            /\ sweeper'.wakeAt = now + TTL
            /\ \A k \in DOMAIN items :
                  IF items[k].present /\ now > items[k].expiresAt
                  THEN ~items'[k].present
                  ELSE items'[k] = items[k]
            /\ \A k \in DOMAIN items :
                  items'[k].present => ~(now' > items'[k].expiresAt)]_vars

\* A sweep has just run at an instant where one key's entry had expired and
\* another key's had not: the first is gone, the second still stored.
C27_Witness ==
    /\ sweeper.wakeAt = now + TTL
    /\ now >= 2 * TTL
    /\ \E k \in Keys :
          /\ ~items[k].present
          /\ lastStored[k].some
          /\ lastStored[k].at + TTL < now
    /\ \E k \in Keys : items[k].present /\ items[k].expiresAt >= now

(***************************************************************************)
(* Further claims on the query service.                                    *)
(***************************************************************************)
\* The payload a handler gets from a store that is not ready.
ZeroPayload(ep) == IF ep = "overview" THEN OverviewVal(0) ELSE NilSlice

\* C28: the zero payload the embedded store returns while it is not ready
\* comes with a nil error, so the handler answers 200 with it and caches it
\* like a real result; an identical request received within the TTL of that
\* entry is answered with the same payload from the cache and the store is
\* not called, whether or not the store has become ready in between.
C28_NotReadyPayloadIsCached ==
    \A o \in Clients :
        (req[o].pc = "done" /\ req[o].cold) =>
            /\ ~req[o].err
            /\ req[o].resp = WriteJSON(ZeroPayload(req[o].ep))
            /\ Cached(req[o].ep) =>
                  /\ req[o].set.some
                  /\ req[o].set.val = ZeroPayload(req[o].ep)
                  /\ \A h \in Clients :
                        (/\ req[h].pc = "done"
                         /\ ReqId(req[h]) = ReqId(req[o])
                         /\ req[h].prior = req[o].set
                         /\ req[h].at <= req[o].set.at + TTL)
                        => /\ req[h].hit
                           /\ ~req[h].called
                           /\ req[h].resp = WriteJSON(ZeroPayload(req[h].ep))

\* A request was answered by the store while it was not ready; the store
\* became ready; then an identical request was answered from the cache with
\* the zero payload.
C28_Witness ==
    \E o \in Clients, h \in Clients :
        /\ o # h
        /\ req[o].pc = "done" /\ req[o].cold /\ req[o].set.some
        /\ req[h].pc = "done" /\ req[h].storeReady
        /\ ReqId(req[h]) = ReqId(req[o])
        /\ req[h].prior = req[o].set
        /\ req[h].hit /\ ~req[h].called
        /\ req[h].resp = WriteJSON(OverviewVal(0))

\* C29: while no refresh holds s.mu and the database is open, a set
\* useMemoryTable means that the events table exists, is complete, and was
\* built by the most recent materialization, which succeeded; and a query that
\* has built its statement while the flag is clear reads the remote files, a
\* query that built it while the flag is set reads the local table.
C29_FlagMatchesTable ==
    /\ (smu # "refresh" /\ ~dbClosed /\ useMemoryTable) =>
          /\ table = "full"
          /\ lastOutcome = "ok"
    /\ \A q \in Queriers : query[q].pc \in {"exec", "unlock"} =>
          /\ ~useMemoryTable => query[q].src = "parquet"
          /\ useMemoryTable => query[q].src = "events"

\* C29 witness: a materialization succeeded, a later one failed because the
\* old table could not be dropped; the flag is clear, the old table is still
\* there, and a query reads the remote files.
C29_Witness ==
    /\ everOk /\ ~useMemoryTable /\ table = "full"
    /\ \E q \in Queriers : smu = q /\ query[q].pc = "exec" /\ query[q].src = "parquet"

(***************************************************************************)
(* Further claims on the TTL cache.                                        *)
(***************************************************************************)
\* A step in which Set is called with a value json.Marshal rejects: a call is
\* counted and no caller starts storing a serializable value.
RejectedSetStep ==
    /\ nSets' # nSets
    /\ ~\E w \in Writers : /\ writer[w].pc = "idle"
                           /\ writer'[w].pc = "lock"
                           /\ writer'[w].val # ChanVal

\* C30: Set with a value that cannot be serialized changes nothing: the call
\* returns at once, taking no lock and leaving every entry, value and expiry,
\* as it was; no unserializable value is ever stored or about to be stored;
\* and a Get that found, under the lock, the entry of the last successful Set
\* returns that Set's value until the entry expires, also after such a Set.
C30_RejectedSetChangesNothing ==
    /\ [][RejectedSetStep =>
            /\ \A w \in Writers : writer'[w].pc = writer[w].pc
            /\ items' = items
            /\ mu' = mu
            /\ lastStored' = lastStored]_vars
    /\ [](/\ \A w \in Writers : writer[w].pc # "idle" => writer[w].val # ChanVal
          /\ \A k \in Keys : lastStored[k].some => lastStored[k].val # ChanVal
          /\ \A k \in Keys : (mu.w = "none" /\ items[k].present) =>
                 items[k] = EntryOf(lastStored[k])
          /\ \A r \in Readers :
                (/\ ChanVal \in written
                 /\ reader[r].pc = "done"
                 /\ reader[r].seen.some
                 /\ reader[r].retAt <= reader[r].seen.at + TTL)
                => /\ reader[r].found
                   /\ reader[r].val = reader[r].seen.val)

\* C30 witness: the writer's last call was a Set on k2 that json.Marshal
\* rejected, made after a successful Set on k2; the entry is the one that Set
\* stored, and a Get of k2 has returned its value.
C30_Witness ==
    /\ writer["w1"] = [IdleWriter EXCEPT !.key = "k2"]
    /\ nSets = 2
    /\ lastStored["k2"].some
    /\ items["k2"] = EntryOf(lastStored["k2"])
    /\ \E r \in Readers :
          /\ reader[r].pc = "done" /\ reader[r].key = "k2"
          /\ reader[r].found /\ reader[r].val = lastStored["k2"].val

====
